---- MODULE Spec2Model ----
(***************************************************************************)
(* Ladybug psychrometric chart / 3D chart: region construction, boolean    *)
(* union, classification of hourly samples, and the conditional-statement  *)
(* evaluator.                                                              *)
(*                                                                         *)
(* Geometry is projected on the dry-bulb axis of the chart: a closed curve *)
(* is the interval [lo, hi] of temperatures it spans, a sample point is    *)
(* its temperature (the X coordinate of the hour point).  The humidity     *)
(* bounds keep their defaults (comfortPar_ unconnected).                   *)
(***************************************************************************)
EXTENDS Integers, Sequences, FiniteSets, TLC

\* ---------------------------------------------------------------- bounds
\* right edge of the chart axis (the chart spans 0..ChartMax; 50 C scaled)
ChartMax == 5
\* largest number of comfort parameter sets
MaxComf == 3
\* largest number of hourly samples handed to the classifier
MaxSamples == 2
\* the fixed companion-hour lag of the night-vent rule (12 in the code)
CompanionLag == 1
\* width of one comfort polygon on the temperature axis
ComfWidth == 2
\* largest number of passive strategies requested together
MaxStrategies == 2
\* hours of the year walked by the hour loop (8760 in the code)
HoursPerYear == 3
\* largest number of data series handed to the statement check
MaxSeries == 2
\* largest number of samples handed to colorMesh
MaxMeshSamples == 2

\* ------------------------------------------------------------- state
VARIABLES
    pc,                     \* position in the psychrometric-chart run
    comfortCurves,          \* comfort polygons, one per parameter set
    comfortCrvSegments,     \* [up, low] bounds used by the strategies
    mergedCurvesFinal,      \* comfort polygons after the optional merge
    listLength,             \* length of the list before the first pass
    count,                  \* passes of the running merge loop
    strategyListTest,       \* names: comfort polygons, then strategies
    passiveStrategyCurves,  \* strategy polygons in construction order
    allCurves,              \* total-coverage curves (unionedCurves)
    mergeComfPolygons_,     \* the merge flag of the component
    tempBelowComf,
    maxComfortPolyTemp,
    hourPts,                \* the classified samples
    epwData,
    patternApplied,         \* patternList != [] in main and the classifier
    totalComfortPercent,
    totalComfortOrNot,
    strategyPercentOfTime,
    strategyOrNot,
    err,                    \* exception that ended the run, or "none"
    \* ---- the conditional statement, at either call site
    site,                   \* "psych" or "3d": which component runs
    cpc,                    \* position in the run of the statement check
    annualHourlyData,       \* the data series handed to the check
    conditionalStatement,   \* the statement, a sequence of characters
    listNum,                \* indices of the letters found in the statement
    finalStatement,         \* the parts of the statement that is executed
    titleStatement,         \* the parts of the restated condition
    patternList,            \* the mask being built by the hour loop
    HOY,                    \* next hour of the hour loop
    execCount,              \* hours evaluated so far (calls of exec)
    warnings,               \* warnings given to the component
    ret,                    \* what checkConditionalStatement returned
    checkData,              \* final go-ahead of checkTheInputs
    mainRan,                \* main has been run
    newAirTemp,             \* the temperatures main keeps after filtering
    hoursOfYear,            \* conditionalHOY of the 3D chart
    \* ---- colorMesh
    mpc,                    \* position in the run of colorMesh
    airTempIn,              \* airTemp of colorMesh, in half degrees
    relHumidIn,             \* relHumid of colorMesh, in percent
    finalMeshFrequency,     \* the returned frequency list (meshFaceValues)
    uncoloredMesh,          \* the faces of the returned mesh, by cell index
    \* ---- checkTheInputs and the parameter lists it hands on
    ipc,                    \* position in the run of checkTheInputs and main
    meanRadTemperature_,    \* the inputs of the component, as connected
    windSpeed_,
    metabolicRate_,
    clothingLevel_,
    barometricPressure_,    \* [hdr: the list has a weather-file header, vals]
    airTempLen,             \* number of temperatures (and of humidities)
    radTemp,                \* the lists checkTheInputs returns
    windSpeed,
    metRate,
    cloLevel,
    exWork,
    barPress,
    avgBarPress,            \* <<>> is None, <<v>> the value v
    checkDataIn,            \* checkData of this run
    inErr,                  \* exception that ended checkTheInputs, or "none"
    inWarnings,             \* warnings given to the component
    fansRequested,          \* "Occupant Use of Fans" in passiveStrategy
    maxWindSpeed,           \* strategyPar_[2] or its default
    comfortBuilt,           \* comfortCurves != [] at line 898
    fansBuilt,              \* "Occupant Use of Fans" in the returned names
    \* ---- unionAllCurves and the documents it works in
    scDoc,                  \* sc.doc: "ghdoc" or "rhino"
    redrawEnabled,          \* rs.EnableRedraw state
    rhinoObjects,           \* what the passes left in the Rhino document
    singleUnions,           \* every pair so far united to one curve
    \* ---- the boundary points of the comfort polygons
    ptpc,                   \* position in the loop of lines 853-872
    ptSets,                 \* number of parameter sets
    ptIndex,                \* index: the parameter set at work
    ptCount,                \* count: the relative humidity line at work
    upTemperAt,             \* calcComfRange of the last turn
    downTemperAt,
    upIntersect,            \* the locals of the loop
    downIntersect,
    upTemperPts,            \* the points of the set at work
    downTemperPts,
    \* ---- the item loops of checkTheInputs
    itpc,                   \* position in the loop over the items
    paramName,              \* the input the loop reads
    paramInput,             \* its items, as connected
    itemIndex,              \* items read so far
    paramList,              \* airTemp, relHumid, radTemp, windSpeed or cloLevel
    checkDataN,             \* checkData1, 2, 5, 6 or 8
    inRangeFlag,            \* nonValue, nonPositive or noVal
    checkDataOut            \* the checkData returned

statVars == <<pc, comfortCurves, comfortCrvSegments, mergedCurvesFinal,
              listLength, count, strategyListTest, passiveStrategyCurves,
              allCurves, mergeComfPolygons_, tempBelowComf,
              maxComfortPolyTemp, hourPts, epwData,
              patternApplied, totalComfortPercent, totalComfortOrNot,
              strategyPercentOfTime, strategyOrNot, err>>

condVars == <<site, cpc, annualHourlyData, conditionalStatement, listNum,
              finalStatement, titleStatement, patternList, HOY, execCount,
              warnings, ret, checkData, mainRan, newAirTemp, hoursOfYear>>

meshVars == <<mpc, airTempIn, relHumidIn, finalMeshFrequency, uncoloredMesh>>

\* what neither the chart run nor the statement check touches
inputVars == <<meanRadTemperature_, windSpeed_, metabolicRate_, clothingLevel_,
               barometricPressure_, airTempLen>>

fanVars == <<fansRequested, maxWindSpeed, comfortBuilt, fansBuilt>>

inVars == <<ipc, inputVars, radTemp, windSpeed, metRate, cloLevel, exWork,
            barPress, avgBarPress, checkDataIn, inErr, inWarnings, fanVars>>

unionVars == <<scDoc, redrawEnabled, rhinoObjects, singleUnions>>

ptVars == <<ptpc, ptSets, ptIndex, ptCount, upTemperAt, downTemperAt,
            upIntersect, downIntersect, upTemperPts, downTemperPts>>

itemVars == <<itpc, paramName, paramInput, itemIndex, paramList, checkDataN,
              inRangeFlag, checkDataOut>>

auxVars == <<meshVars, inVars, unionVars, ptVars, itemVars>>

vars == <<statVars, condVars, auxVars>>

\* ------------------------------------------------------------ helpers
RECURSIVE SumSeq(_)
SumSeq(s) == IF s = <<>> THEN 0 ELSE Head(s) + SumSeq(Tail(s))

Max2(a, b) == IF a >= b THEN a ELSE b
Min2(a, b) == IF a <= b THEN a ELSE b

SeqsUpTo(S, n) == UNION {[1..k -> S] : k \in 0..n}

\* a closed curve: the temperatures it spans
Curve(lo, hi) == [lo |-> lo, hi |-> hi]

\* Curve.Contains(point, plane, tolerance) of the geometry kernel
Contains(curve, pt) ==
    IF curve.lo < pt /\ pt < curve.hi THEN "Inside"
    ELSE IF pt = curve.lo \/ pt = curve.hi THEN "Coincident"
    ELSE "Outside"

\* Curve.CreateBooleanUnion of two closed curves: one curve when the two
\* regions meet, both curves when they are apart
CurveBooleanUnion(A, B) ==
    IF A.lo <= B.hi /\ B.lo <= A.hi
    THEN <<Curve(Min2(A.lo, B.lo), Max2(A.hi, B.hi))>>
    ELSE <<A, B>>

\* ------------------------------------------------- unionAllCurves
\* One iteration of the loop of unionAllCurves for the pair that starts at
\* curveCount (1-based here).  a is the local variable a as the previous
\* iteration left it (<<>> while it is still unbound); the result is a after
\* the iteration.  outcome is what the kernel did with this pair.
unionPairKeepsNothing(Curves, curveCount, outcome, a) ==
    IF curveCount + 1 > Len(Curves) \/ outcome = "raise"
    THEN <<>>
    ELSE IF outcome = "union"
    THEN CurveBooleanUnion(Curves[curveCount], Curves[curveCount + 1])
    ELSE a
unionPair(Curves, curveCount, outcome, a) ==
    IF curveCount + 1 > Len(Curves)
    THEN <<Curves[curveCount]>>                 \* IndexError -> except
    ELSE IF outcome = "raise"
    THEN <<Curves[curveCount]>>                 \* except
    ELSE IF outcome = "union"
    THEN CurveBooleanUnion(Curves[curveCount], Curves[curveCount + 1])
    ELSE IF a = <<>>
    THEN <<Curves[curveCount]>>                 \* a unbound -> except
    ELSE a                                      \* all is empty: a is stale

RECURSIVE unionLoop(_, _, _, _, _)
unionLoop(Curves, oracle, curveCount, a, res) ==
    IF curveCount > Len(Curves) THEN res
    ELSE LET k == (curveCount + 1) \div 2
             outcome == IF k \in DOMAIN oracle THEN oracle[k] ELSE "union"
             a2 == unionPair(Curves, curveCount, outcome, a)
         IN unionLoop(Curves, oracle, curveCount + 2, a2, res \o a2)

unionAllCurves(Curves, oracle) == unionLoop(Curves, oracle, 1, <<>>, <<>>)

UnionOutcomes == {"union", "none", "raise"}
Oracles(Curves) == [1..(Len(Curves) \div 2) -> UnionOutcomes]

\* ---------------------------------------- calcComfAndStrategyPolygons
StrategyOrder == <<"Evaporative Cooling", "Thermal Mass + Night Vent",
                   "Occupant Use of Fans", "Internal Heat Gain",
                   "Humidification Only", "Dessicant Dehumidification",
                   "Dehumidification Only">>

StrategyNames == {StrategyOrder[i] : i \in DOMAIN StrategyOrder}

\* the strategy lists tried with n comfort polygons: at most MaxComf curves
\* are built in one run
PassiveStrategyInputs(n) ==
    {S \in SUBSET {StrategyOrder[i] : i \in 1..5} :
        Cardinality(S) <= Min2(MaxStrategies, MaxComf - n)}

StrategyPars ==
    {[tempAboveComf |-> 2, tempBelowComf |-> 1, bldgBalPt |-> 0],
     [tempAboveComf |-> 1, tempBelowComf |-> 1, bldgBalPt |-> 1]}

\* the comfort polygon of one parameter set whose lower bound is downTemper
ComfortPolygon(downTemper) == Curve(downTemper, downTemper + ComfWidth)

RECURSIVE MaxOf(_)
MaxOf(s) == IF Len(s) = 1 THEN s[1] ELSE Max2(Head(s), MaxOf(Tail(s)))
RECURSIVE MinOf(_)
MinOf(s) == IF Len(s) = 1 THEN s[1] ELSE Min2(Head(s), MinOf(Tail(s)))

\* comfortCrvSegments[0][0] and [0][1] after lines 950-962
OrganizeSegments(curves) ==
    [up  |-> MaxOf([i \in DOMAIN curves |-> curves[i].hi]),
     low |-> MinOf([i \in DOMAIN curves |-> curves[i].lo])]

\* does the rule of this strategy apply (the if around its block)
StrategyRequested(name, passiveStrategy, fansWider) ==
    /\ name \in passiveStrategy
    /\ name = "Occupant Use of Fans" => fansWider
    /\ name \notin {"Humidification Only", "Dessicant Dehumidification",
                    "Dehumidification Only"}

\* the closed curve a strategy block joins, <<>> when the split or join it
\* needs has too few pieces (the block raises)
StrategyCurve(name, seg, par) ==
    CASE name = "Evaporative Cooling" ->
            IF seg.up < ChartMax THEN <<Curve(seg.up, ChartMax)>> ELSE <<>>
      [] name = "Thermal Mass + Night Vent" ->
            IF seg.up < ChartMax
            THEN <<Curve(seg.up, Min2(seg.up + par.tempAboveComf, ChartMax))>>
            ELSE <<>>
      [] name = "Occupant Use of Fans" ->
            IF seg.up < ChartMax THEN <<Curve(seg.up, seg.up + 1)>> ELSE <<>>
      [] name = "Internal Heat Gain" ->
            IF par.bldgBalPt < seg.low THEN <<Curve(par.bldgBalPt, seg.low)>>
            ELSE <<>>
      [] OTHER -> <<>>

\* the strategy blocks in source order, from block i on; ok = FALSE when a
\* block raised
RECURSIVE BuildStrategyCurves(_, _, _, _, _, _)
BuildStrategyCurves(i, passiveStrategy, fansWider, seg, par, acc) ==
    IF i > Len(StrategyOrder) THEN acc
    ELSE IF ~StrategyRequested(StrategyOrder[i], passiveStrategy, fansWider)
    THEN BuildStrategyCurves(i + 1, passiveStrategy, fansWider, seg, par, acc)
    ELSE LET c == StrategyCurve(StrategyOrder[i], seg, par)
         IN IF c = <<>>
            THEN [acc EXCEPT !.ok = FALSE]
            ELSE BuildStrategyCurves(i + 1, passiveStrategy, fansWider, seg, par,
                     [acc EXCEPT !.curves = @ \o c,
                                 !.names = Append(@, StrategyOrder[i])])

\* names of the comfort polygons (lines 937-943)
ComfortIndexName == <<"Comfort 0", "Comfort 1", "Comfort 2", "Comfort 3",
                      "Comfort 4", "Comfort 5", "Comfort 6", "Comfort 7">>

ComfortNamesIndexed(merged) == [i \in DOMAIN merged |-> ComfortIndexName[i]]
ComfortNames(merged) ==
    IF Len(merged) = 1 THEN <<"Comfort">>
    ELSE [i \in DOMAIN merged |-> ComfortIndexName[i]]

\* ---------------------------------------- statisticallyAnalyzePolygons
\* comfBool of the plain loop (lines 1321-1323, 1347-1349, 1375-1377)
ComfBool(polygon, pts) ==
    [h \in DOMAIN pts |-> IF Contains(polygon, pts[h]) = "Inside" THEN 1 ELSE 0]

\* airTemp[hourCt-12] with the list indexing of the language: hourCt is
\* 0-based, a negative index counts from the end; -1 when out of range
CompanionIndexNoWrap(hourCt, n) == IF hourCt - CompanionLag >= 0 THEN hourCt - CompanionLag ELSE -1
CompanionIndex(hourCt, n) ==
    LET idx == hourCt - CompanionLag
    IN IF idx >= 0 THEN idx
       ELSE IF idx + n >= 0 THEN idx + n
       ELSE -1

\* does the companion-hour loop (lines 1351-1353) run for this strategy
CompanionRuleAppliesToFans(name, epw, applied) ==
    ~(name # "Occupant Use of Fans" \/ epw = FALSE \/ applied)
CompanionRuleApplies(name, epw, applied) ==
    ~(name # "Thermal Mass + Night Vent" \/ epw = FALSE \/ applied)

\* comfBool of the companion-hour loop
CompanionBool(polygon, pts, airTemp, maxTemp, below) ==
    [h \in DOMAIN pts |->
        IF /\ Contains(polygon, pts[h]) = "Inside"
           /\ airTemp[CompanionIndex(h - 1, Len(airTemp)) + 1] < maxTemp - below
        THEN 1 ELSE 0]

\* the companion lookup raises IndexError for some hour inside the polygon
CompanionRaises(polygon, pts, airTemp) ==
    \E h \in DOMAIN pts :
        /\ Contains(polygon, pts[h]) = "Inside"
        /\ CompanionIndex(h - 1, Len(airTemp)) = -1

\* (sum(comfBool)/len(comfBool))*100 with the integer division of the
\* language
PercentOf(comfBool) == (SumSeq(comfBool) \div Len(comfBool)) * 100

\* lines 1324-1327 and 1378-1381
GuardedPercent(comfBool) ==
    IF Len(comfBool) # 0 THEN PercentOf(comfBool) ELSE 100

\* the 7 header items inserted in front of a mask when epwData is True
Header(epw, title) ==
    IF epw THEN <<"epwStr[0]", "epwStr[1]", title, "Boolean Value",
                  "epwStr[4]", "start", "end">>
    ELSE <<>>

MaskOf(epw, title, comfBool) == [hdr |-> Header(epw, title), data |-> comfBool]

\* error raised while the strategy polygon is classified, "none" otherwise
StrategyError(name, polygon, pts, airTemp, epw, applied) ==
    IF CompanionRuleApplies(name, epw, applied)
       /\ CompanionRaises(polygon, pts, airTemp)
    THEN "IndexError"
    ELSE IF Len(pts) = 0 THEN "ZeroDivisionError"
    ELSE "none"

StrategyBool(name, polygon, pts, airTemp, epw, applied, maxTemp, below) ==
    IF CompanionRuleApplies(name, epw, applied)
    THEN CompanionBool(polygon, pts, airTemp, maxTemp, below)
    ELSE ComfBool(polygon, pts)

\* finalComfOrNot of lines 1387-1393: the masks of the unioned curves added
\* entry by entry
RECURSIVE AddMasks(_)
AddMasks(masks) ==
    IF masks = <<>> THEN <<>>
    ELSE IF Len(masks) = 1 THEN masks[1]
    ELSE LET rest == AddMasks(Tail(masks))
         IN [h \in DOMAIN masks[1] |-> masks[1][h] + rest[h]]

\* the index of the name of strategy polygon i (1-based) in strategyTextNames:
\* strategyTextNames[countComf + countStrat + 1]
StrategyNameIndexShifted(nComf, i) == nComf + i - 1
StrategyNameIndex(nComf, i) == nComf + i

FirstError(errs) ==
    IF \A i \in DOMAIN errs : errs[i] = "none" THEN "none"
    ELSE errs[CHOOSE i \in DOMAIN errs :
                 errs[i] # "none" /\ \A j \in 1..(i - 1) : errs[j] = "none"]

statisticallyAnalyzePolygons(pts, comfortPolyline, strategyPolylines, unionedCurves, epw, names, below, airTemp, maxTemp, applied) ==
    LET nComf == Len(comfortPolyline)
        comfBools == [i \in DOMAIN comfortPolyline |->
                         ComfBool(comfortPolyline[i], pts)]
        stratErrs == [i \in DOMAIN strategyPolylines |->
                         StrategyError(names[StrategyNameIndex(nComf, i)],
                                       strategyPolylines[i],
                                       pts, airTemp, epw, applied)]
        stratBools == [i \in DOMAIN strategyPolylines |->
                         StrategyBool(names[StrategyNameIndex(nComf, i)],
                                      strategyPolylines[i],
                                      pts, airTemp, epw, applied, maxTemp, below)]
        totalBools == [i \in DOMAIN unionedCurves |->
                         ComfBool(unionedCurves[i], pts)]
        e == FirstError(stratErrs)
    IN IF e # "none"
       THEN [err |-> e]
       ELSE [err |-> "none",
             strategyPercent |->
                 [i \in DOMAIN comfortPolyline |-> GuardedPercent(comfBools[i])]
                 \o [i \in DOMAIN strategyPolylines |-> PercentOf(stratBools[i])],
             strategyOrNot |->
                 [i \in DOMAIN comfortPolyline |->
                     MaskOf(epw, names[i], comfBools[i])]
                 \o [i \in DOMAIN strategyPolylines |->
                     MaskOf(epw, names[StrategyNameIndex(nComf, i)],
                            stratBools[i])],
             finalTotalPercent |->
                 SumSeq([i \in DOMAIN unionedCurves |->
                            GuardedPercent(totalBools[i])]),
             finalComfOrNot |-> MaskOf(epw, "All", AddMasks(totalBools))]

\* ------------------------------------------------------------ actions
Unset == "unset"

\* what checkConditionalStatement hands back: -1, -1 or the title and the mask
MinusOne == [minus1 |-> TRUE, title |-> <<>>, pattern |-> <<>>]
Returned(title, pattern) == [minus1 |-> FALSE, title |-> title, pattern |-> pattern]

\* nothing built, nothing analysed
StatStart ==
    /\ comfortCurves = <<>>
    /\ comfortCrvSegments = Unset
    /\ mergedCurvesFinal = <<>>
    /\ listLength = 0
    /\ count = 0
    /\ strategyListTest = <<>>
    /\ passiveStrategyCurves = <<>>
    /\ allCurves = <<>>
    /\ mergeComfPolygons_ = FALSE
    /\ tempBelowComf = 0
    /\ maxComfortPolyTemp = 0
    /\ hourPts = <<>>
    /\ patternApplied = FALSE
    /\ totalComfortPercent = Unset
    /\ totalComfortOrNot = Unset
    /\ strategyPercentOfTime = Unset
    /\ strategyOrNot = Unset
    /\ err = "none"

\* no statement under check
CondIdle ==
    /\ site = "none"
    /\ cpc = "idle"
    /\ annualHourlyData = <<>>
    /\ conditionalStatement = <<>>

\* colorMesh not called
MeshIdle ==
    /\ mpc = "idle"
    /\ airTempIn = <<>>
    /\ relHumidIn = <<>>
    /\ finalMeshFrequency = <<>>
    /\ uncoloredMesh = {}

\* what checkTheInputs returns, before it has run
InputsUnset ==
    /\ radTemp = <<>>
    /\ windSpeed = <<>>
    /\ metRate = <<>>
    /\ cloLevel = <<>>
    /\ exWork = <<>>
    /\ barPress = <<>>
    /\ avgBarPress = <<>>
    /\ checkDataIn = FALSE
    /\ inErr = "none"
    /\ inWarnings = {}
    /\ fansRequested = FALSE
    /\ maxWindSpeed = 0
    /\ comfortBuilt = FALSE
    /\ fansBuilt = FALSE

\* unionAllCurves not called: the script works in the Grasshopper document
UnionIdle ==
    /\ scDoc = "ghdoc"
    /\ redrawEnabled = TRUE
    /\ rhinoObjects = {}
    /\ singleUnions = TRUE

\* a point of a relative humidity line: where the line is cut at a
\* temperature, or its start or end; line and set tell the turn of the loop
\* that computed it
Point(line, set, kind, x) == [line |-> line, set |-> set, kind |-> kind, x |-> x]

\* a local that no statement has assigned yet
Unbound == Point(-1, -1, "unbound", 0)

\* the locals of the loop of lines 853-872 before its first turn
PointsUnset ==
    /\ ptIndex = 0
    /\ ptCount = 0
    /\ upTemperAt = 0
    /\ downTemperAt = 0
    /\ upIntersect = Unbound
    /\ downIntersect = Unbound
    /\ upTemperPts = <<>>
    /\ downTemperPts = <<>>

\* the locals of an item loop before the loop
ItemsUnset ==
    /\ itemIndex = 0
    /\ paramList = <<>>
    /\ checkDataN = FALSE
    /\ inRangeFlag = TRUE
    /\ checkDataOut = "unset"

\* no item loop run
ItemsIdle ==
    /\ itpc = "idle"
    /\ paramName = "none"
    /\ paramInput = <<>>
    /\ ItemsUnset

\* calcComfAndStrategyPolygons not called
PointsIdle ==
    /\ ptpc = "idle"
    /\ ptSets = 0
    /\ PointsUnset

\* checkTheInputs not run
InputsIdle ==
    /\ ipc = "idle"
    /\ meanRadTemperature_ = <<>>
    /\ windSpeed_ = <<>>
    /\ metabolicRate_ = <<>>
    /\ clothingLevel_ = <<>>
    /\ barometricPressure_ = [hdr |-> FALSE, vals |-> <<>>]
    /\ airTempLen = 0
    /\ InputsUnset

CondLocals ==
    /\ listNum = <<>>
    /\ finalStatement = <<>>
    /\ titleStatement = <<>>
    /\ patternList = <<>>
    /\ HOY = 0
    /\ execCount = 0
    /\ warnings = {}
    /\ ret = Returned(<<>>, <<>>)
    /\ checkData = FALSE
    /\ mainRan = FALSE
    /\ newAirTemp = <<>>
    /\ hoursOfYear = <<>>

Init ==
    /\ ItemsIdle
    /\ pc = "start"
    /\ epwData = FALSE
    /\ StatStart
    /\ CondIdle
    /\ CondLocals
    /\ MeshIdle
    /\ InputsIdle
    /\ UnionIdle
    /\ PointsIdle

outVars == <<hourPts, epwData, patternApplied, totalComfortPercent,
             totalComfortOrNot, strategyPercentOfTime, strategyOrNot>>

\* lines 852-925: one comfort polygon per parameter set
BuildComfortPolygons ==
    /\ pc = "start"
    /\ \E calcLengthComf \in 1..MaxComf, merge \in BOOLEAN :
       \E downTemper \in [1..calcLengthComf -> 0..(ChartMax - ComfWidth)] :
          /\ comfortCurves' = [i \in 1..calcLengthComf |->
                                  ComfortPolygon(downTemper[i])]
          /\ mergeComfPolygons_' = merge
    /\ mergedCurvesFinal' = comfortCurves'
    /\ listLength' = Len(comfortCurves')
    /\ count' = 0
    /\ pc' = "merge"
    /\ UNCHANGED <<comfortCrvSegments, strategyListTest, passiveStrategyCurves,
                   allCurves, tempBelowComf, maxComfortPolyTemp, err>>
    /\ UNCHANGED <<outVars, condVars, auxVars>>

\* lines 928 and 1294: int(listLength/2) + 1
PassLimitRoundedUp(n) == ((n + 1) \div 2) + 1
PassLimit(n) == (n \div 2) + 1

MergeLoopRuns ==
    /\ Len(comfortCurves) > 1
    /\ mergeComfPolygons_ = TRUE
    /\ Len(mergedCurvesFinal) > 1
    /\ count < PassLimit(listLength)

\* lines 929-931: one pass of the merge loop
MergePass ==
    /\ pc = "merge"
    /\ MergeLoopRuns
    /\ \E oracle \in Oracles(mergedCurvesFinal) :
          mergedCurvesFinal' = unionAllCurves(mergedCurvesFinal, oracle)
    /\ count' = count + 1
    /\ UNCHANGED <<pc, comfortCurves, comfortCrvSegments, listLength,
                   strategyListTest, passiveStrategyCurves, allCurves,
                   mergeComfPolygons_, tempBelowComf, maxComfortPolyTemp, err>>
    /\ UNCHANGED <<outVars, condVars, auxVars>>

\* lines 937-962: the names of the comfort polygons, the segments the
\* strategies start from
LabelComfort ==
    /\ pc = "merge"
    /\ ~MergeLoopRuns
    /\ pc' = "strategies"
    /\ strategyListTest' = ComfortNames(mergedCurvesFinal)
    /\ comfortCrvSegments' = OrganizeSegments(comfortCurves)
    /\ UNCHANGED <<comfortCurves, mergedCurvesFinal, listLength, count,
                   passiveStrategyCurves, allCurves, mergeComfPolygons_,
                   tempBelowComf, maxComfortPolyTemp, err>>
    /\ UNCHANGED <<outVars, condVars, auxVars>>

\* lines 992-1294: the strategy polygons, then the list to be unioned
BuildStrategies ==
    /\ pc = "strategies"
    /\ \E passiveStrategy \in PassiveStrategyInputs(Len(comfortCurves)),
          par \in StrategyPars,
          fansWider \in BOOLEAN :
          LET built == BuildStrategyCurves(1, passiveStrategy, fansWider,
                           comfortCrvSegments, par,
                           [ok |-> TRUE, curves |-> <<>>,
                            names |-> strategyListTest])
          IN IF built.ok
             THEN /\ passiveStrategyCurves' = built.curves
                  /\ strategyListTest' = built.names
                  /\ tempBelowComf' = par.tempBelowComf
                  /\ maxComfortPolyTemp' = comfortCrvSegments.up
                  /\ allCurves' = mergedCurvesFinal \o built.curves
                  /\ listLength' = Len(allCurves')
                  /\ count' = 0
                  /\ pc' = "union"
                  /\ err' = err
             ELSE /\ err' = "GeometryError"
                  /\ pc' = "failed"
                  /\ UNCHANGED <<passiveStrategyCurves, strategyListTest,
                                 tempBelowComf, maxComfortPolyTemp, allCurves,
                                 listLength, count>>
    /\ UNCHANGED <<comfortCurves, comfortCrvSegments, mergedCurvesFinal,
                   mergeComfPolygons_>>
    /\ UNCHANGED <<outVars, condVars, auxVars>>

UnionLoopRuns ==
    /\ listLength > 1
    /\ Len(allCurves) > 1
    /\ count < PassLimit(listLength)

\* lines 1295-1297: one pass of the total-coverage union
UnionPass ==
    /\ pc = "union"
    /\ UnionLoopRuns
    /\ \E oracle \in Oracles(allCurves) :
          allCurves' = unionAllCurves(allCurves, oracle)
    /\ count' = count + 1
    /\ UNCHANGED <<pc, comfortCurves, comfortCrvSegments, mergedCurvesFinal,
                   listLength, strategyListTest, passiveStrategyCurves,
                   mergeComfPolygons_, tempBelowComf, maxComfortPolyTemp, err>>
    /\ UNCHANGED <<outVars, condVars, auxVars>>

\* line 1308
ReturnPolygons ==
    /\ pc = "union"
    /\ ~UnionLoopRuns
    /\ pc' = "analyze"
    /\ UNCHANGED <<comfortCurves, comfortCrvSegments, mergedCurvesFinal,
                   listLength, count, strategyListTest, passiveStrategyCurves,
                   allCurves, mergeComfPolygons_, tempBelowComf,
                   maxComfortPolyTemp, err>>
    /\ UNCHANGED <<outVars, condVars, auxVars>>

\* the sample sets main can hand over: a conditional pattern needs EPW data,
\* and only a pattern can leave no sample at all
SampleInputs ==
    {in \in [pts : SeqsUpTo(0..ChartMax, MaxSamples), epw : BOOLEAN,
             applied : BOOLEAN] :
        /\ in.applied => in.epw
        /\ in.pts = <<>> => in.applied}

\* main, line 1570, and the outputs of lines 1633-1636
Analyze ==
    /\ pc = "analyze"
    /\ pc' \in {"done", "failed"}
    /\ \E in \in SampleInputs :
          LET r == statisticallyAnalyzePolygons(in.pts, mergedCurvesFinal,
                       passiveStrategyCurves, allCurves, in.epw,
                       strategyListTest, tempBelowComf, in.pts,
                       maxComfortPolyTemp, in.applied)
          IN /\ hourPts' = in.pts
             /\ epwData' = in.epw
             /\ patternApplied' = in.applied
             /\ IF r.err = "none"
                THEN /\ totalComfortPercent' = r.finalTotalPercent
                     /\ totalComfortOrNot' = r.finalComfOrNot
                     /\ strategyPercentOfTime' = r.strategyPercent
                     /\ strategyOrNot' = r.strategyOrNot
                     /\ err' = err
                     /\ pc' = "done"
                ELSE /\ err' = r.err
                     /\ pc' = "failed"
                     /\ UNCHANGED <<totalComfortPercent, totalComfortOrNot,
                                    strategyPercentOfTime, strategyOrNot>>
    /\ UNCHANGED <<comfortCurves, comfortCrvSegments, mergedCurvesFinal,
                   listLength, count, strategyListTest, passiveStrategyCurves,
                   allCurves, mergeComfPolygons_, tempBelowComf,
                   maxComfortPolyTemp>>
    /\ UNCHANGED <<condVars, auxVars>>

Next ==
    \/ BuildComfortPolygons
    \/ MergePass
    \/ LabelComfort
    \/ BuildStrategies
    \/ UnionPass
    \/ ReturnPolygons
    \/ Analyze

Spec == Init /\ [][Next]_vars

\* ------------------------------------------------------------ claims
\* the polygon that entry i of the strategy outputs is about
RegionAt(i) ==
    IF i <= Len(mergedCurvesFinal) THEN mergedCurvesFinal[i]
    ELSE passiveStrategyCurves[i - Len(mergedCurvesFinal)]

NumRegions == Len(mergedCurvesFinal) + Len(passiveStrategyCurves)

\* sample h lies inside at least one comfort or strategy polygon
InsideSomeRegion(h) ==
    \E i \in 1..NumRegions : Contains(RegionAt(i), hourPts[h]) = "Inside"

\* C1: for a non-empty sample set the percent reported for every comfort and
\* strategy polygon is 100 * k / N, k the number of 1 entries of its mask
C1_PercentIsShareOfMask ==
    (pc = "done" /\ hourPts # <<>>) =>
        \A i \in DOMAIN strategyPercentOfTime :
            strategyPercentOfTime[i] * Len(hourPts)
                = 100 * SumSeq(strategyOrNot[i].data)

\* C2: for an empty sample set every classified polygon gets 100 percent and
\* no error is raised
C2_EmptySampleSetIsHundred ==
    (pc \in {"done", "failed"} /\ patternApplied /\ hourPts = <<>>) =>
        /\ err = "none"
        /\ \A i \in DOMAIN strategyPercentOfTime :
              strategyPercentOfTime[i] = 100

\* C3: every entry of totalComfortOrNot is 0 or 1, and it is 1 exactly when
\* the sample is inside at least one comfort or strategy polygon
C3_TotalMaskIsOrOfRegions ==
    pc = "done" =>
        \A h \in DOMAIN totalComfortOrNot.data :
            /\ totalComfortOrNot.data[h] \in {0, 1}
            /\ totalComfortOrNot.data[h] = 1 <=> InsideSomeRegion(h)

\* C4: totalComfortPercent is the percentage of the samples that are inside
\* at least one comfort or strategy polygon, and lies in 0..100
C4_TotalPercentIsCoverage ==
    (pc = "done" /\ hourPts # <<>>) =>
        /\ totalComfortPercent \in 0..100
        /\ totalComfortPercent * Len(hourPts)
              = 100 * Cardinality({h \in DOMAIN hourPts : InsideSomeRegion(h)})

\* position of a strategy name in the construction order
OrderOf(name) == CHOOSE k \in DOMAIN StrategyOrder : StrategyOrder[k] = name

\* C5: strategyNames, strategyPercentOfTime and strategyOrNot have the same
\* number of entries, entry i of each is about polygon i (comfort polygons
\* first, then the strategies in construction order), and every mask holds
\* one 0/1 entry per sample, in sample order
C5_OutputsAligned ==
    pc = "done" =>
        /\ Len(strategyListTest) = NumRegions
        /\ Len(strategyPercentOfTime) = NumRegions
        /\ Len(strategyOrNot) = NumRegions
        /\ \A i \in 1..Len(mergedCurvesFinal) :
              strategyListTest[i] \in
                  {"Comfort"} \cup {ComfortIndexName[k] : k \in DOMAIN ComfortIndexName}
        /\ \A i \in (Len(mergedCurvesFinal) + 1)..NumRegions :
              /\ strategyListTest[i] \in StrategyNames
              /\ \A j \in (Len(mergedCurvesFinal) + 1)..(i - 1) :
                    OrderOf(strategyListTest[j]) < OrderOf(strategyListTest[i])
        /\ \A i \in 1..NumRegions :
              /\ epwData => strategyOrNot[i].hdr[3] = strategyListTest[i]
              /\ Len(strategyOrNot[i].data) = Len(hourPts)
              /\ \A h \in DOMAIN hourPts :
                    /\ strategyOrNot[i].data[h] \in {0, 1}
                    /\ strategyOrNot[i].data[h] = 1 =>
                          Contains(RegionAt(i), hourPts[h]) = "Inside"
                    /\ (strategyListTest[i] # "Thermal Mass + Night Vent"
                        /\ Contains(RegionAt(i), hourPts[h]) = "Inside") =>
                          strategyOrNot[i].data[h] = 1

\* a run with a comfort polygon and two strategies, two samples, one of them
\* inside the second strategy only
C5_Witness ==
    /\ pc = "done"
    /\ epwData
    /\ Len(passiveStrategyCurves) = 2
    /\ Len(hourPts) = 2
    /\ strategyOrNot[3].data = <<0, 1>>
    /\ strategyOrNot[2].data = <<0, 0>>

\* ================================================ checkConditionalStatement
\* A string is a sequence of one-character strings.
letters == <<"a", "b", "c", "d", "e", "f", "g", "h", "i", "j", "k", "l", "m",
             "n", "o", "p", "q", "r", "s", "t", "u", "v", "w", "x", "y", "z">>

Digits == <<"0", "1", "2", "3", "4", "5", "6", "7", "8", "9">>

\* str.find(sub) != -1
RECURSIVE Contains_(_, _)
Contains_(str, sub) ==
    IF Len(str) < Len(sub) THEN FALSE
    ELSE IF SubSeq(str, 1, Len(sub)) = sub THEN TRUE
    ELSE Contains_(Tail(str), sub)

\* str.replace(old, new): every occurrence, left to right, not overlapping
RECURSIVE Replace(_, _, _)
Replace(str, old, new) ==
    IF Len(str) < Len(old) THEN str
    ELSE IF SubSeq(str, 1, Len(old)) = old
    THEN new \o Replace(SubSeq(str, Len(old) + 1, Len(str)), old, new)
    ELSE <<Head(str)>> \o Replace(Tail(str), old, new)

\* str.split(' ')
RECURSIVE Split(_)
Split(str) ==
    IF \A i \in DOMAIN str : str[i] # " " THEN <<str>>
    ELSE LET i == CHOOSE k \in DOMAIN str :
                      str[k] = " " /\ \A j \in 1..(k - 1) : str[j] # " "
         IN <<SubSeq(str, 1, i - 1)>> \o Split(SubSeq(str, i + 1, Len(str)))

\* `num`: the decimal text of a small number
NumStr(num) ==
    IF num < 10 THEN <<Digits[num + 1]>>
    ELSE <<Digits[(num \div 10) + 1], Digits[(num % 10) + 1]>>

\* lines 448-451
csCleaned(statement) == Replace(Replace(statement, <<"a", "n", "d">>, <<>>), <<"o", "r">>, <<>>)

\* lines 453-456: 0-based indices of the letters present, in alphabet order
LetterIndices(str) ==
    LET present == {i \in DOMAIN letters : Contains_(str, <<letters[i]>>)}
        Nth[k \in 1..Cardinality(present)] ==
            CHOOSE i \in present : Cardinality({j \in present : j < i}) = k - 1
    IN [k \in 1..Cardinality(present) |-> Nth[k] - 1]

\* lines 459-467: some letter has no list
UndefinedLetterStrict(nums, listInfo) ==
    \E k \in DOMAIN nums : nums[k] > Len(listInfo)
UndefinedLetter(nums, listInfo) ==
    \E k \in DOMAIN nums : nums[k] > Len(listInfo) - 1

FullYearStart == <<1, 1, 1>>
FullYearEnd == <<12, 31, 24>>

\* lines 469-476 of the psychrometric chart: some list is not hourly data of
\* a whole year
InvalidListPsych(listInfo) ==
    \E i \in DOMAIN listInfo :
        \/ listInfo[i].freq # "Hourly"
        \/ listInfo[i].start # FullYearStart
        \/ listInfo[i].end # FullYearEnd
        \/ Len(listInfo[i].vals) # HoursPerYear

\* lines 83-93 of the 3D chart: some list has another analysis period than
\* the first
InvalidList3D(listInfo) ==
    \E i \in DOMAIN listInfo :
        \/ listInfo[i].start # listInfo[1].start
        \/ listInfo[i].end # listInfo[1].end

\* 'selList[this][HOY]'.replace('this', `num`)
toBeReplacedWithShifted(num) ==
    <<"s", "e", "l", "L", "i", "s", "t", "[">> \o NumStr(num + 1)
        \o <<"]", "[", "H", "O", "Y", "]">>
toBeReplacedWith(num) ==
    <<"s", "e", "l", "L", "i", "s", "t", "[">> \o NumStr(num)
        \o <<"]", "[", "H", "O", "Y", "]">>

\* lines 487-492: the loop over listNum for one part of the statement, from
\* position k of listNum on
RECURSIVE SubstituteLetters(_, _, _, _, _)
SubstituteLetters(statemntPart, statementCopy, nums, k, listInfo) ==
    IF k > Len(nums) THEN [part |-> statemntPart, copy |-> statementCopy]
    ELSE LET let == <<letters[nums[k] + 1]>>
             part2 == Replace(statemntPart, let, toBeReplacedWith(nums[k]))
             copy2 == Replace(statementCopy, let, listInfo[nums[k] + 1].name)
         IN IF Contains_(copy2, let)
            THEN [part |-> part2, copy |-> copy2]
            ELSE SubstituteLetters(part2, copy2, nums, k + 1, listInfo)

IsConnective(part) == part = <<"a", "n", "d">> \/ part = <<"o", "r">>

\* lines 484-497: one part of the statement
SubstitutePart(statemntPart, nums, listInfo) ==
    IF ~IsConnective(statemntPart)
    THEN SubstituteLetters(statemntPart, statemntPart, nums, 1, listInfo)
    ELSE [part |-> statemntPart, copy |-> statemntPart]

\* lines 479-497: the parts of finalStatement and of titleStatement
BuildStatements(statement, nums, listInfo) ==
    LET parts == Split(statement)
        subst == [i \in DOMAIN parts |-> SubstitutePart(parts[i], nums, listInfo)]
    IN [final |-> [i \in DOMAIN parts |-> subst[i].part],
        title |-> [i \in DOMAIN parts |-> subst[i].copy]]

\* ------------------------------------------------------ exec(finalStatement)
\* The statements that are run are comparisons of a number, a reference
\* selList[n][HOY], or a number divided by either, joined by and / or.  The
\* outcome of an hour is "True", "False", or "raise" when Python raises.
SplitOn(tokens, sep) ==
    LET cuts == <<0>> \o SelectSeq([i \in DOMAIN tokens |-> i], LAMBDA i : tokens[i] = sep)
                     \o <<Len(tokens) + 1>>
    IN [k \in 1..(Len(cuts) - 1) |-> SubSeq(tokens, cuts[k] + 1, cuts[k + 1] - 1)]

IsNumber(chars) ==
    Len(chars) > 0 /\ \A i \in DOMAIN chars : \E d \in DOMAIN Digits : chars[i] = Digits[d]

RECURSIVE NumVal(_)
NumVal(chars) ==
    IF chars = <<>> THEN 0
    ELSE 10 * NumVal(SubSeq(chars, 1, Len(chars) - 1))
            + (CHOOSE d \in 0..9 : Digits[d + 1] = chars[Len(chars)])

Raise == [k |-> "raise", v |-> 0]
SyntaxError == [k |-> "syntax", v |-> 0]
Value(n) == [k |-> "val", v |-> n]

\* the text  selList[n][HOY]  and the n in it
RefOpen == <<"s", "e", "l", "L", "i", "s", "t", "[">>
RefClose == <<"]", "[", "H", "O", "Y", "]">>

IsRef(chars) ==
    /\ Len(chars) > Len(RefOpen) + Len(RefClose)
    /\ SubSeq(chars, 1, Len(RefOpen)) = RefOpen
    /\ SubSeq(chars, Len(chars) - Len(RefClose) + 1, Len(chars)) = RefClose
    /\ IsNumber(SubSeq(chars, Len(RefOpen) + 1, Len(chars) - Len(RefClose)))

RefIndex(chars) == NumVal(SubSeq(chars, Len(RefOpen) + 1, Len(chars) - Len(RefClose)))

\* a number, a reference to the hour's value of a list, or a bare name
Atom(chars, lists, hoy) ==
    IF IsNumber(chars) THEN Value(NumVal(chars))
    ELSE IF IsRef(chars)
    THEN IF RefIndex(chars) < Len(lists) /\ hoy < Len(lists[RefIndex(chars) + 1])
         THEN Value(lists[RefIndex(chars) + 1][hoy + 1])
         ELSE Raise
    ELSE IF Len(chars) = 1 /\ \E i \in DOMAIN letters : chars = <<letters[i]>>
    THEN Raise
    ELSE SyntaxError

\* an atom, or atom / atom
Operand(chars, selList, hoy) ==
    LET sides == SplitOn(chars, "/")
    IN IF Len(sides) = 1 THEN Atom(chars, selList, hoy)
       ELSE IF Len(sides) > 2 THEN SyntaxError
       ELSE LET l == Atom(sides[1], selList, hoy)
                r == Atom(sides[2], selList, hoy)
            IN IF l.k = "syntax" \/ r.k = "syntax" THEN SyntaxError
               ELSE IF l.k = "raise" \/ r.k = "raise" THEN Raise
               ELSE IF r.v = 0 THEN Raise
               ELSE Value(l.v \div r.v)

\* operand < operand, or operand > operand
Comparison(chars, selList, hoy) ==
    LET ops == {i \in DOMAIN chars : chars[i] \in {"<", ">"}}
    IN IF Cardinality(ops) # 1 THEN "syntax"
       ELSE LET i == CHOOSE j \in ops : TRUE
                l == Operand(SubSeq(chars, 1, i - 1), selList, hoy)
                r == Operand(SubSeq(chars, i + 1, Len(chars)), selList, hoy)
            IN IF l.k = "syntax" \/ r.k = "syntax" THEN "syntax"
               ELSE IF l.k = "raise" \/ r.k = "raise" THEN "raise"
               ELSE IF chars[i] = "<"
               THEN (IF l.v < r.v THEN "True" ELSE "False")
               ELSE (IF l.v > r.v THEN "True" ELSE "False")

\* x and y and ...: the first false or raising operand decides
RECURSIVE AndTest(_, _, _, _)
AndTest(clauses, k, selList, hoy) ==
    IF k > Len(clauses) THEN "True"
    ELSE LET v == IF Len(clauses[k]) = 1
                  THEN Comparison(clauses[k][1], selList, hoy) ELSE "syntax"
         IN IF v = "True" THEN AndTest(clauses, k + 1, selList, hoy) ELSE v

\* x or y or ...: the first true or raising operand decides
RECURSIVE OrTest(_, _, _, _)
OrTest(groups, k, selList, hoy) ==
    IF k > Len(groups) THEN "False"
    ELSE LET v == AndTest(SplitOn(groups[k], <<"a", "n", "d">>), 1, selList, hoy)
         IN IF v = "False" THEN OrTest(groups, k + 1, selList, hoy) ELSE v

\* the statement does not compile: some comparison is malformed
Malformed(tokens, selList) ==
    \E g \in DOMAIN SplitOn(tokens, <<"o", "r">>) :
        LET clauses == SplitOn(SplitOn(tokens, <<"o", "r">>)[g], <<"a", "n", "d">>)
        IN \E c \in DOMAIN clauses :
               \/ Len(clauses[c]) # 1
               \/ Comparison(clauses[c][1], selList, 0) = "syntax"

\* exec(finalStatement) for one hour: "True", "False" or "raise"
Exec(parts, selList, hoy) ==
    LET tokens == SelectSeq(parts, LAMBDA t : t # <<>>)
    IN IF Malformed(tokens, selList) THEN "raise"
       ELSE OrTest(SplitOn(tokens, <<"o", "r">>), 1, selList, hoy)

\* ------------------------------------------------------------------ inputs
\* values a data series holds
DataValues == {0, 2}
\* items of the header that precedes the values of a data series
HeaderLen == 7
PartYearEnd == <<6, 30, 24>>

\* the display names of the series, in the order they are connected
DisplayNames ==
    << <<"D", "r", "y", " ", "B", "u", "l", "b", " ", "T", "e", "m", "p", "e", "r", "a", "t", "u", "r", "e">>,
       <<"R", "e", "l", "a", "t", "i", "v", "e", " ", "H", "u", "m", "i", "d", "i", "t", "y">>,
       <<"W", "i", "n", "d", " ", "S", "p", "e", "e", "d">>,
       <<"D", "i", "r", "e", "c", "t", " ", "N", "o", "r", "m", "a", "l", " ", "R", "a", "d", "i", "a", "t", "i", "o", "n">> >>

\* the values of the first series are free; the later ones alternate
Alternating(first, len) == [i \in 1..len |-> IF i % 2 = 1 THEN first ELSE 2 - first]

SeriesValues(i, len) ==
    IF i = 1 THEN [1..len -> DataValues]
    ELSE {Alternating(first, len) : first \in DataValues}

\* hourly series of the whole year or of a part of it, and daily series
SeriesInputs(i) ==
    {[name |-> DisplayNames[i], freq |-> f, start |-> FullYearStart, end |-> e, vals |-> v] :
        f \in {"Hourly", "Daily"}, e \in {FullYearEnd, PartYearEnd},
        v \in SeriesValues(i, HoursPerYear) \cup SeriesValues(i, HoursPerYear - 1)}
    \ {[name |-> DisplayNames[i], freq |-> "Daily", start |-> FullYearStart, end |-> e, vals |-> v] :
        e \in {FullYearEnd, PartYearEnd}, v \in SeriesValues(i, HoursPerYear)}

RECURSIVE DataInputs(_)
DataInputs(n) ==
    IF n = 0 THEN {<<>>}
    ELSE {Append(d, x) : d \in DataInputs(n - 1), x \in SeriesInputs(n)}

\* the psychrometric chart always hands over temperature and humidity
MinSeries(s) == IF s = "psych" THEN 2 ELSE 1

Statements ==
    { <<>>,
      <<"a", ">", "1">>,
      <<"b", "<", "1">>,
      <<"a", ">", "1", " ", "a", "n", "d", " ", "b", "<", "1">>,
      <<"a", ">", "1", " ", "o", "r", " ", "b", ">", "1">>,
      <<"2", "/", "a", ">", "0">>,
      <<"b", ">", "1", " ", "o", "r", " ", "2", "/", "a", ">", "0">>,
      <<"c", ">", "1">>,
      <<"a", ">", "b">> }

\* lines 470 / 88: the values of each list
selList(data) == [i \in DOMAIN data |-> data[i].vals]


\* ----------------------------------------------- the run of a statement check
InitCond ==
    /\ ItemsIdle
    /\ pc = "idle"
    /\ StatStart
    /\ site \in {"psych", "3d"}
    /\ epwData \in (IF site = "psych" THEN BOOLEAN ELSE {FALSE})
    /\ cpc = "start"
    /\ \E n \in MinSeries(site)..MaxSeries : annualHourlyData \in DataInputs(n)
    /\ conditionalStatement \in Statements
    /\ CondLocals
    /\ MeshIdle
    /\ InputsIdle
    /\ UnionIdle
    /\ PointsIdle

callVars == <<site, annualHourlyData, conditionalStatement>>

\* psychrometric chart, checkTheInputs lines 396-404: the statement is checked
\* when the data is of a weather file, temperature and humidity together
\* hold more than two years' items less one, and a statement is given
CheckTheInputsCall ==
    /\ cpc = "start"
    /\ site = "psych"
    /\ IF /\ epwData
          /\ (HeaderLen + Len(annualHourlyData[1].vals))
               + (HeaderLen + Len(annualHourlyData[2].vals))
                 > 2 * (HoursPerYear + HeaderLen) - 1
          /\ conditionalStatement # <<>>
       THEN cpc' = "called" /\ ret' = ret
       ELSE cpc' = "skipped" /\ ret' = Returned(<<>>, <<>>)
    /\ UNCHANGED <<callVars, listNum, finalStatement, titleStatement,
                   patternList, HOY, execCount, warnings, checkData, mainRan,
                   newAirTemp, hoursOfYear>>
    /\ UNCHANGED <<statVars, auxVars>>

\* 3D chart, main lines 359-363
Main3DCall ==
    /\ cpc = "start"
    /\ site = "3d"
    /\ cpc' = IF conditionalStatement # <<>> THEN "called" ELSE "skipped"
    /\ UNCHANGED <<callVars, listNum, finalStatement, titleStatement,
                   patternList, HOY, execCount, warnings, ret, checkData,
                   mainRan, newAirTemp, hoursOfYear>>
    /\ UNCHANGED <<statVars, auxVars>>

InvalidList(s, listInfo) ==
    IF s = "psych" THEN InvalidListPsych(listInfo) ELSE InvalidList3D(listInfo)

\* checkConditionalStatement up to the hour loop
PrepareStatement ==
    /\ cpc = "called"
    /\ LET nums == LetterIndices(csCleaned(conditionalStatement))
           built == BuildStatements(conditionalStatement, nums, annualHourlyData)
       IN /\ listNum' = nums
          /\ IF UndefinedLetter(nums, annualHourlyData)
             THEN /\ warnings' = warnings \cup {"list does not exist"}
                  /\ ret' = MinusOne
                  /\ cpc' = "returned"
                  /\ UNCHANGED <<finalStatement, titleStatement>>
             ELSE IF InvalidList(site, annualHourlyData)
             THEN /\ warnings' = warnings \cup {"list not valid"}
                  /\ ret' = MinusOne
                  /\ cpc' = "returned"
                  /\ UNCHANGED <<finalStatement, titleStatement>>
             ELSE /\ finalStatement' = built.final
                  /\ titleStatement' = built.title
                  /\ cpc' = "loop"
                  /\ UNCHANGED <<warnings, ret>>
    /\ UNCHANGED <<callVars, patternList, HOY, execCount, checkData, mainRan,
                   newAirTemp, hoursOfYear>>
    /\ UNCHANGED <<statVars, auxVars>>

\* the failure of an hour ends the check of the psychrometric chart (the try
\* is around the loop) and is passed over by the 3D chart (the try is inside)
AbortsOnFailureNever(s) == FALSE
AbortsOnFailure(s) == s = "psych"

\* one turn of  for HOY in range(8760)
ExecHour ==
    /\ cpc = "loop"
    /\ HOY < HoursPerYear
    /\ execCount' = execCount + 1
    /\ LET pattern == Exec(finalStatement, selList(annualHourlyData), HOY)
       IN IF pattern # "raise"
          THEN /\ patternList' = Append(patternList, pattern = "True")
               /\ HOY' = HOY + 1
               /\ UNCHANGED <<cpc, ret, warnings>>
          ELSE IF AbortsOnFailure(site)
          THEN /\ warnings' = warnings \cup {"statement not valid"}
               /\ ret' = MinusOne
               /\ cpc' = "returned"
               /\ UNCHANGED <<patternList, HOY>>
          ELSE /\ HOY' = HOY + 1
               /\ UNCHANGED <<patternList, cpc, ret, warnings>>
    /\ UNCHANGED <<callVars, listNum, finalStatement, titleStatement,
                   checkData, mainRan, newAirTemp, hoursOfYear>>
    /\ UNCHANGED <<statVars, auxVars>>

\* return titleStatement, patternList
ReturnPattern ==
    /\ cpc = "loop"
    /\ HOY = HoursPerYear
    /\ ret' = Returned(titleStatement, patternList)
    /\ cpc' = "returned"
    /\ UNCHANGED <<callVars, listNum, finalStatement, titleStatement,
                   patternList, HOY, execCount, warnings, checkData, mainRan,
                   newAirTemp, hoursOfYear>>
    /\ UNCHANGED <<statVars, auxVars>>

\* checkTheInputs lines 400-401
checkData11(r) == ~r.minus1

\* main lines 1523-1537: the hours the mask selects
SelectByPattern(values, pattern) ==
    IF pattern = <<>> THEN values
    ELSE LET kept == SelectSeq([i \in DOMAIN pattern |-> i], LAMBDA i : pattern[i])
         IN [k \in DOMAIN kept |-> values[kept[k]]]

\* psychrometric chart: the end of checkTheInputs (lines 400-404, 432-440)
\* and the component body (lines 1616-1630) with the selection made by main
CheckTheInputsFinish ==
    /\ cpc \in {"returned", "skipped"}
    /\ site = "psych"
    /\ \E otherChecks \in BOOLEAN :
          /\ checkData' = (checkData11(ret) /\ otherChecks)
          /\ mainRan' = checkData'
          /\ newAirTemp' = IF checkData'
                           THEN SelectByPattern(annualHourlyData[1].vals, ret.pattern)
                           ELSE <<>>
    /\ cpc' = "done"
    /\ UNCHANGED <<callVars, listNum, finalStatement, titleStatement,
                   patternList, HOY, execCount, warnings, ret, hoursOfYear>>
    /\ UNCHANGED <<statVars, auxVars>>

\* 3D chart, main lines 367-369
TrueHours(pattern) ==
    LET kept == SelectSeq([i \in DOMAIN pattern |-> i], LAMBDA i : pattern[i])
    IN [k \in DOMAIN kept |-> (kept[k] - 1) + 1]

\* 3D chart: main lines 363-369
Main3DFinish ==
    /\ cpc \in {"returned", "skipped"}
    /\ site = "3d"
    /\ patternList' = IF cpc = "skipped" \/ ret.minus1
                      THEN [i \in 1..HoursPerYear |-> FALSE]
                      ELSE ret.pattern
    /\ hoursOfYear' = TrueHours(patternList')
    /\ cpc' = "done"
    /\ UNCHANGED <<callVars, listNum, finalStatement, titleStatement, HOY,
                   execCount, warnings, ret, checkData, mainRan, newAirTemp>>
    /\ UNCHANGED <<statVars, auxVars>>

NextCond ==
    \/ CheckTheInputsCall
    \/ Main3DCall
    \/ PrepareStatement
    \/ ExecHour
    \/ ReturnPattern
    \/ CheckTheInputsFinish
    \/ Main3DFinish

SpecCond == InitCond /\ [][NextCond]_vars

\* ------------------------------------------- properties of the statement check
\* a statement that is one letter compared with one digit
IsSingleComparison(statement) ==
    /\ Len(statement) = 3
    /\ \E i \in DOMAIN letters : statement[1] = letters[i]
    /\ statement[2] \in {"<", ">"}
    /\ IsNumber(<<statement[3]>>)

SeriesOf(statement) == CHOOSE i \in DOMAIN letters : statement[1] = letters[i]

Satisfies(statement, x) ==
    IF statement[2] = "<" THEN x < NumVal(<<statement[3]>>)
    ELSE x > NumVal(<<statement[3]>>)

AllWholeYear(data) ==
    \A i \in DOMAIN data :
        /\ data[i].freq = "Hourly"
        /\ data[i].start = FullYearStart
        /\ data[i].end = FullYearEnd
        /\ Len(data[i].vals) = HoursPerYear

\* C6: for a statement that compares one lettered series with a constant, the
\* check - at the psychrometric chart and at the 3D chart alike - accepts
\* the statement when the series are hourly data of the whole year, and the
\* mask it returns has one entry per hour of the series, true exactly at the
\* hours whose value satisfies the comparison.
C6_SingleComparisonMask ==
    (/\ cpc = "returned"
     /\ IsSingleComparison(conditionalStatement)
     /\ SeriesOf(conditionalStatement) <= Len(annualHourlyData))
    => LET series == annualHourlyData[SeriesOf(conditionalStatement)].vals
       IN /\ AllWholeYear(annualHourlyData) => ~ret.minus1
          /\ ~ret.minus1 =>
                ret.pattern = [h \in DOMAIN series |->
                                  Satisfies(conditionalStatement, series[h])]

C6_Witness ==
    /\ cpc = "returned"
    /\ site = "3d"
    /\ conditionalStatement = <<"a", ">", "1">>
    /\ annualHourlyData[1].vals = <<0, 2, 2>>
    /\ ret.pattern = <<FALSE, TRUE, TRUE>>

\* the letters a statement uses: those of its parts other than and / or
UsedLetters(statement) ==
    LET parts == Split(statement)
    IN {i \in DOMAIN letters :
           \E p \in DOMAIN parts :
               /\ ~IsConnective(parts[p])
               /\ \E c \in DOMAIN parts[p] : parts[p][c] = letters[i]}

UsesUndefinedLetter ==
    \E i \in UsedLetters(conditionalStatement) : i > Len(annualHourlyData)

\* C7: a statement that uses a letter for which no series was supplied is
\* rejected with a warning and -1, -1 without any hour being evaluated, and a
\* statement whose letters all have a series is never rejected for that reason.
C7_UndefinedLetterRejected ==
    /\ (cpc \notin {"start", "skipped", "called"} /\ UsesUndefinedLetter) =>
          /\ execCount = 0
          /\ cpc = "returned" => (ret = MinusOne /\ "list does not exist" \in warnings)
    /\ "list does not exist" \in warnings => UsesUndefinedLetter

C7_Witness ==
    /\ cpc = "returned"
    /\ conditionalStatement = <<"c", ">", "1">>
    /\ Len(annualHourlyData) = 2
    /\ ret = MinusOne
    /\ execCount = 0
    /\ "list does not exist" \in warnings

\* the hours at which running the statement raises
FailingHours ==
    {h \in 0..(HoursPerYear - 1) :
        Exec(finalStatement, selList(annualHourlyData), h) = "raise"}

\* the check reached the hour loop
Evaluated == finalStatement # <<>>

\* C8: at the 3D chart an hour whose evaluation fails is recorded as false and
\* evaluation goes on, so that the mask has one entry per hour and
\* conditionalHOY lists exactly the 1-based hours whose entry is true.
C8_SkipHourRecordsFalse ==
    (/\ site = "3d"
     /\ cpc = "done"
     /\ Evaluated
     /\ AllWholeYear(annualHourlyData))
    => /\ patternList = [h \in 1..HoursPerYear |->
                            Exec(finalStatement, selList(annualHourlyData), h - 1) = "True"]
       /\ hoursOfYear = TrueHours(patternList)

\* C9: at the psychrometric chart the first hour whose evaluation fails ends
\* the check: a warning is given, -1, -1 is returned and never a part of the
\* mask, checkData becomes False and main is not run.
C9_AbortOnFirstFailure ==
    (/\ site = "psych"
     /\ cpc \in {"returned", "done"}
     /\ Evaluated
     /\ FailingHours # {})
    => /\ ret = MinusOne
       /\ "statement not valid" \in warnings
       /\ \E h \in FailingHours :
          execCount = h + 1 /\ \A g \in FailingHours : h <= g
       /\ cpc = "done" => (~checkData /\ ~mainRan /\ newAirTemp = <<>>)

C9_Witness ==
    /\ site = "psych"
    /\ cpc = "done"
    /\ conditionalStatement = <<"2", "/", "a", ">", "0">>
    /\ annualHourlyData[1].vals[1] = 2
    /\ annualHourlyData[1].vals[2] = 0
    /\ execCount = 2
    /\ ret = MinusOne
    /\ ~mainRan

SameLengths(data) ==
    \A i, j \in DOMAIN data : Len(data[i].vals) = Len(data[j].vals)

\* C10: when the series handed to the check do not all hold the same number
\* of values, the check - at either chart - rejects the statement with a
\* warning and -1, -1 before any hour is evaluated.
C10_DifferentLengthsRejected ==
    (cpc \notin {"start", "skipped", "called"} /\ ~SameLengths(annualHourlyData))
    => /\ execCount = 0
       /\ cpc = "returned" => (ret = MinusOne /\ warnings # {})

\* the hours of the first series at which the supplied statement is true
HoursStatementTrue ==
    LET nums == LetterIndices(csCleaned(conditionalStatement))
        built == BuildStatements(conditionalStatement, nums, annualHourlyData)
    IN SelectSeq([h \in DOMAIN annualHourlyData[1].vals |-> h],
                 LAMBDA h : Exec(built.final, selList(annualHourlyData), h - 1) = "True")

\* C11: when a statement is supplied to the psychrometric chart and the
\* inputs pass checkTheInputs, the temperatures that main hands on are exactly
\* those of the hours at which the statement is true, in their order; the
\* statement is never ignored with every hour kept.
C11_StatementNeverIgnored ==
    (/\ site = "psych"
     /\ cpc = "done"
     /\ conditionalStatement # <<>>
     /\ mainRan)
    => newAirTemp = [k \in DOMAIN HoursStatementTrue |->
                        annualHourlyData[1].vals[HoursStatementTrue[k]]]

\* ================================================================ colorMesh
\* Temperatures are counted in half degrees, humidities in percent.
TempUnit == 2
\* the faces of a row: range(-20, 50, 1)
MeshTempLow == -20
MeshTempHigh == 50
\* the rows: range(0, 100, 5)
HumidStep == 5
HumidRows == 20

TempFaces == MeshTempHigh - MeshTempLow

\* round(x) of Python 2 for x given in halves: halves go away from zero
RoundHalves(x2) ==
    IF x2 >= 0 THEN (x2 + 1) \div 2 ELSE -((1 - x2) \div 2)

\* getTempIndex: int(round(airTemp[hour] + 19.5)) inside the chart, else -1
getTempIndex(t2) ==
    IF t2 > MeshTempLow * TempUnit /\ t2 < MeshTempHigh * TempUnit
    THEN RoundHalves(t2 + (-MeshTempLow * TempUnit - 1))
    ELSE -1

\* the chain  if humid < 5 ... elif humid < 95 ... else
HumidRow(humid) ==
    IF \E k \in 0..(HumidRows - 2) : humid < HumidStep * (k + 1)
    THEN CHOOSE k \in 0..(HumidRows - 2) :
             /\ humid < HumidStep * (k + 1)
             /\ \A j \in 0..(k - 1) : ~(humid < HumidStep * (j + 1))
    ELSE HumidRows - 1

\* sum(meshFrequency[row][tempIndex]) after the binning loop
CellFrequency(temps, humids, row, tempIndex) ==
    Cardinality({hour \in DOMAIN humids :
                    /\ getTempIndex(temps[hour]) # -1
                    /\ getTempIndex(temps[hour]) = tempIndex
                    /\ HumidRow(humids[hour]) = row})

\* finalMeshFrequency: row after row, the faces of a row by temperature
MeshFrequencyList(temps, humids) ==
    [i \in 1..(HumidRows * TempFaces) |->
        CellFrequency(temps, humids, (i - 1) \div TempFaces, (i - 1) % TempFaces)]

\* the faces that hold no hour, by 0-based index
cullFaceIndicesNone(freq) == {}
cullFaceIndices(freq) == {i - 1 : i \in {j \in DOMAIN freq : freq[j] = 0}}

\* the faces left after uncoloredMesh.Faces.DeleteFaces(cullFaceIndices)
FacesKept(freq) == {i - 1 : i \in DOMAIN freq} \ cullFaceIndices(freq)

MeshTemps == {-41, -40, -39, 0, 1, 99, 100}
MeshHumids == {0, 4, 5, 100}

InitMesh ==
    /\ ItemsIdle
    /\ pc = "idle"
    /\ epwData = FALSE
    /\ StatStart
    /\ CondIdle
    /\ CondLocals
    /\ mpc = "start"
    /\ \E n \in 0..MaxMeshSamples :
          /\ airTempIn \in [1..n -> MeshTemps]
          /\ relHumidIn \in [1..n -> MeshHumids]
    /\ finalMeshFrequency = <<>>
    /\ uncoloredMesh = {}
    /\ InputsIdle
    /\ UnionIdle
    /\ PointsIdle

ColorMesh ==
    /\ mpc = "start"
    /\ finalMeshFrequency' = MeshFrequencyList(airTempIn, relHumidIn)
    /\ uncoloredMesh' = FacesKept(finalMeshFrequency')
    /\ mpc' = "done"
    /\ UNCHANGED <<airTempIn, relHumidIn>>
    /\ UNCHANGED <<statVars, condVars, inVars, unionVars, ptVars, itemVars>>

NextMesh == ColorMesh

SpecMesh == InitMesh /\ [][NextMesh]_vars

\* sum of the entries lo..hi of a list
RECURSIVE SumRange(_, _, _)
SumRange(f, lo, hi) ==
    IF lo > hi THEN 0
    ELSE IF lo = hi THEN f[lo]
    ELSE SumRange(f, lo, (lo + hi) \div 2) + SumRange(f, ((lo + hi) \div 2) + 1, hi)

\* C12: the frequencies colorMesh returns add up to the number of samples
\* whose temperature t satisfies -20 <= t < 50, whatever their humidity.
C12_FrequenciesSumToSamplesInRange ==
    mpc = "done" =>
        SumRange(finalMeshFrequency, 1, Len(finalMeshFrequency))
          = Cardinality({h \in DOMAIN airTempIn :
                            /\ MeshTempLow * TempUnit <= airTempIn[h]
                            /\ airTempIn[h] < MeshTempHigh * TempUnit})

GeometricMask(i) ==
    [h \in DOMAIN hourPts |->
        IF Contains(RegionAt(i), hourPts[h]) = "Inside" THEN 1 ELSE 0]

\* sample h of polygon i passes the companion-hour rule: it is inside and
\* the temperature CompanionLag hours earlier is below the limit
PassesCompanionRule(i, h) ==
    /\ Contains(RegionAt(i), hourPts[h]) = "Inside"
    /\ hourPts[h - CompanionLag] < maxComfortPolyTemp - tempBelowComf

\* C14 (as stated): the companion-hour rule is applied to the polygon
\* labelled "Occupant Use of Fans" and to no other; every other polygon is
\* classified by containment alone.
C14_CompanionRuleOnFansOnly ==
    pc = "done" =>
        \A i \in 1..NumRegions :
            IF strategyListTest[i] = "Occupant Use of Fans"
            THEN \A h \in (CompanionLag + 1)..Len(hourPts) :
                     strategyOrNot[i].data[h] = 1 <=> PassesCompanionRule(i, h)
            ELSE strategyOrNot[i].data = GeometricMask(i)

\* C14 (amended): the companion-hour rule is applied to the polygon labelled
\* "Thermal Mass + Night Vent", and only when the data is of a weather file
\* and no conditional statement selected the hours; every other polygon -
\* "Occupant Use of Fans" included - is classified by containment alone.
C14_CompanionRuleOnNightVentOnly ==
    pc = "done" =>
        \A i \in 1..NumRegions :
            IF /\ strategyListTest[i] = "Thermal Mass + Night Vent"
               /\ epwData
               /\ ~patternApplied
            THEN \A h \in (CompanionLag + 1)..Len(hourPts) :
                     strategyOrNot[i].data[h] = 1 <=> PassesCompanionRule(i, h)
            ELSE strategyOrNot[i].data = GeometricMask(i)

\* a night-vent polygon whose second sample is inside but follows a warm hour
C14_Witness ==
    /\ pc = "done"
    /\ epwData
    /\ ~patternApplied
    /\ Len(hourPts) = 2
    /\ \E i \in 1..NumRegions :
          /\ strategyListTest[i] = "Thermal Mass + Night Vent"
          /\ Contains(RegionAt(i), hourPts[2]) = "Inside"
          /\ strategyOrNot[i].data[2] = 0
    /\ \E i \in 1..NumRegions : strategyListTest[i] = "Occupant Use of Fans"

\* C15: a sample on the boundary of a polygon gets entry 1 for that polygon,
\* like a sample strictly inside, in the comfort and strategy masks and in the
\* mask of the total coverage.
C15_BoundaryInclusive ==
    pc = "done" =>
        \A h \in DOMAIN hourPts :
            /\ \A i \in 1..NumRegions :
                  (/\ Contains(RegionAt(i), hourPts[h]) = "Coincident"
                   /\ strategyListTest[i] # "Thermal Mass + Night Vent")
                  => strategyOrNot[i].data[h] = 1
            /\ (\E c \in DOMAIN allCurves :
                   Contains(allCurves[c], hourPts[h]) = "Coincident")
               => totalComfortOrNot.data[h] >= 1

\* C16: a strategy whose closed curve cannot be made is skipped:
\* calcComfAndStrategyPolygons still returns, and no failure of a strategy
\* ends the run.
C16_StrategyFailureSkipped ==
    ~(pc = "failed" /\ err = "GeometryError")

\* ------------------------------------------------------------------
\* checkTheInputs of the psychrometric chart: the comfort-parameter
\* lists and the barometric pressure, and the use main makes of them.
\* Wind speeds are in units of 0.05 m/s, pressures in Pascals.

MaxParLen == 3
MaxPressLen == 2

RadTempDefault == 23
WindSpeedDefault == 1
MetRateDefault == 1
CloLevelDefault == 1
SeaLevelPressure == 101325
PercentLow == 0
PercentHigh == 100

LengthWarning == "lengths of these lists must match across the parameters"
PressureWarning == "barometricPressure_ input does not contain valid value."
TempLengthWarning == "lengths of these lists must match between temperature and humidity"

\* lines 807-811 and 351-355: data[0] repeated calcLength times
duplicateData(data, calcLength) == [i \in 1..calcLength |-> data[1]]

\* a connected list of valid items is taken over, an unconnected one
\* gets the default (lines 222-335)
ListOrDefault(input, default) == IF Len(input) # 0 THEN input ELSE <<default>>

\* listLenCheck: the lengths of the lists that hold more than one value
RECURSIVE listLenCheck(_)
listLenCheck(lists) == IF lists = <<>> THEN <<>> ELSE (IF Len(Head(lists)) > 1 THEN <<Len(Head(lists))>> ELSE <<>>) \o listLenCheck(Tail(lists))

\* all(x == listLenCheck[0] for x in listLenCheck)
AllSameLength(lens) == \A i \in 1..Len(lens) : lens[i] = lens[1]

\* line 346
comfortListsMatch(rad, wind, met, clo) == AllSameLength(listLenCheck(<<rad, wind, met, clo>>))

\* lines 357-360: a list of one value is repeated, a longer one kept
Broadcast(list, n) == IF Len(list) > 1 THEN list ELSE duplicateData(list, n)

\* lines 337-373: the four lists, exWork, calcLength2 and checkData9; the
\* branch of line 362 assigns neither exWork nor calcLength2, which the
\* return statement of line 440 then reads
ComfortLists(radIn, windIn, metIn, cloIn) ==
    LET rad == ListOrDefault(radIn, RadTempDefault)
        wind == ListOrDefault(windIn, WindSpeedDefault)
        met == ListOrDefault(metIn, MetRateDefault)
        clo == ListOrDefault(cloIn, CloLevelDefault)
        lens == listLenCheck(<<rad, wind, met, clo>>)
    IN  IF lens # <<>>
        THEN IF comfortListsMatch(rad, wind, met, clo)
             THEN [radTemp |-> Broadcast(rad, lens[1]),
                   windSpeed |-> Broadcast(wind, lens[1]),
                   metRate |-> Broadcast(met, lens[1]),
                   cloLevel |-> Broadcast(clo, lens[1]),
                   exWork |-> duplicateData(<<0>>, lens[1]),
                   calcLength2 |-> lens[1], checkData9 |-> TRUE,
                   warnings |-> {}, unbound |-> FALSE]
             ELSE [radTemp |-> rad, windSpeed |-> wind, metRate |-> met,
                   cloLevel |-> clo, exWork |-> <<>>, calcLength2 |-> 0,
                   checkData9 |-> FALSE, warnings |-> {LengthWarning},
                   unbound |-> TRUE]
        ELSE [radTemp |-> rad, windSpeed |-> wind, metRate |-> met,
              cloLevel |-> clo, exWork |-> <<0>>, calcLength2 |-> 1,
              checkData9 |-> TRUE, warnings |-> {}, unbound |-> FALSE]

\* lines 427-429: the average as the fraction sum/len, None as <<>>
Mean(s) == [num |-> SumSeq(s), den |-> Len(s)]

avgOf(press) == IF Len(press) > 1 THEN <<Mean(press)>> ELSE IF Len(press) = 1 THEN <<[num |-> press[1], den |-> 1]>> ELSE <<>>

\* line 170: the test an item without weather-file header has to pass
PressureItemAccepted(item) == PercentLow <= item /\ item <= PercentHigh

\* lines 155-184: barPress and checkData3
PressureList(bp) ==
    IF Len(bp.vals) = 0 /\ ~bp.hdr
    THEN [barPress |-> <<SeaLevelPressure>>, checkData3 |-> TRUE]
    ELSE IF bp.hdr
    THEN [barPress |-> bp.vals, checkData3 |-> TRUE]
    ELSE [barPress |-> SelectSeq(bp.vals, PressureItemAccepted),
          checkData3 |-> \A i \in 1..Len(bp.vals) : PressureItemAccepted(bp.vals[i])]

\* lines 188-220: checkData4 and the pressures after broadcasting; the
\* temperatures and humidities are nTemp valid values each
TempLists(press, ok3, nTemp) ==
    LET lens == (IF nTemp > 1 THEN <<nTemp, nTemp>> ELSE <<>>) \o listLenCheck(<<press>>)
    IN  IF ~ok3 THEN [barPress |-> press, checkData4 |-> FALSE, warnings |-> {}]
        ELSE IF lens = <<>> THEN [barPress |-> press, checkData4 |-> TRUE, warnings |-> {}]
        ELSE IF AllSameLength(lens)
        THEN [barPress |-> IF Len(press) > 1 THEN press ELSE IF press = <<>> THEN <<>> ELSE duplicateData(press, lens[1]),
              checkData4 |-> TRUE, warnings |-> {}]
        ELSE [barPress |-> press, checkData4 |-> FALSE, warnings |-> {TempLengthWarning}]

\* in-place list.sort(), ascending
RECURSIVE Insert(_, _)
Insert(x, s) == IF s = <<>> THEN <<x>> ELSE IF x <= Head(s) THEN <<x>> \o s ELSE <<Head(s)>> \o Insert(x, Tail(s))

RECURSIVE Sorted(_)
Sorted(s) == IF s = <<>> THEN <<>> ELSE Insert(Head(s), Sorted(Tail(s)))

\* lines 946-947: windSpeed.sort(); windSpeed[0] = windSpeed[-1]
OrganizeWindSpeed(wind) == LET w == Sorted(wind) IN [w EXCEPT ![1] = w[Len(w)]]

\* lines 948-949: cloLevel.sort(); cloLevel[0] = cloLevel[0]
OrganizeCloLevel(clo) == Sorted(clo)

RadTempValues == {23}
WindSpeedValues == {0, 20}
MetRateValues == {1}
CloLevelValues == {1, 2}
PressureValues == {50, 100001, SeaLevelPressure}
HeaderPressureValues == {100001, SeaLevelPressure}

PressureInputs == [hdr : {FALSE}, vals : SeqsUpTo(PressureValues, MaxPressLen)] \cup [hdr : {TRUE}, vals : SeqsUpTo(HeaderPressureValues, MaxPressLen)]

InitInputs ==
    /\ ItemsIdle
    /\ pc = "idle"
    /\ epwData = FALSE
    /\ StatStart
    /\ CondIdle
    /\ CondLocals
    /\ MeshIdle
    /\ ipc = "start"
    /\ meanRadTemperature_ \in SeqsUpTo(RadTempValues, MaxParLen)
    /\ windSpeed_ \in SeqsUpTo(WindSpeedValues, MaxParLen)
    /\ metabolicRate_ \in SeqsUpTo(MetRateValues, MaxParLen)
    /\ clothingLevel_ \in SeqsUpTo(CloLevelValues, MaxParLen)
    /\ barometricPressure_ \in PressureInputs
    /\ airTempLen \in 1..MaxPressLen
    /\ InputsUnset
    /\ UnionIdle
    /\ PointsIdle

\* lines 93-440 and 1617-1622: checkTheInputs on the connected inputs.
\* The warnings are given before the return statement is reached.
checkTheInputs ==
    /\ ipc = "start"
    /\ LET c == ComfortLists(meanRadTemperature_, windSpeed_, metabolicRate_, clothingLevel_)
           p == PressureList(barometricPressure_)
           t == TempLists(p.barPress, p.checkData3, airTempLen)
       IN  /\ inWarnings' = c.warnings \cup t.warnings \cup (IF p.checkData3 THEN {} ELSE {PressureWarning})
           /\ IF c.unbound
              THEN /\ inErr' = "UnboundLocalError"
                   /\ ipc' = "raised"
                   /\ UNCHANGED <<radTemp, windSpeed, metRate, cloLevel, exWork,
                                  barPress, avgBarPress, checkDataIn>>
              ELSE /\ radTemp' = c.radTemp
                   /\ windSpeed' = c.windSpeed
                   /\ metRate' = c.metRate
                   /\ cloLevel' = c.cloLevel
                   /\ exWork' = c.exWork
                   /\ barPress' = t.barPress
                   /\ avgBarPress' = avgOf(t.barPress)
                   /\ checkDataIn' = (p.checkData3 /\ t.checkData4 /\ c.checkData9)
                   /\ ipc' = "checked"
                   /\ UNCHANGED inErr
    /\ UNCHANGED <<inputVars, fanVars>>
    /\ UNCHANGED <<statVars, condVars, meshVars, unionVars, ptVars, itemVars>>

\* the largest wind speed the fans may give, in units of 0.05 m/s: a
\* value of strategyPar_ and the default of 1.5 m/s (lines 1002, 1011, 1016)
MaxWindSpeedDefault == 30
MaxWindSpeedValues == {10, MaxWindSpeedDefault}

\* line 1158 with comfCount = 0 (line 1019)
FansCondition(requested, wind, maxWind) == requested /\ wind[1] < maxWind

\* lines 1625-1631, 1567, 945-949 and 1158: main runs when checkData is
\* True and hands the lists to calcComfAndStrategyPolygons, which organises
\* them when comfort curves were built (line 898) and then decides on the
\* polygon of the fans
main ==
    /\ ipc = "checked"
    /\ checkDataIn
    /\ \E comfortCurvesBuilt \in BOOLEAN, requested \in BOOLEAN, maxWind \in MaxWindSpeedValues :
          /\ comfortBuilt' = comfortCurvesBuilt
          /\ fansRequested' = requested
          /\ maxWindSpeed' = maxWind
          /\ IF comfortCurvesBuilt
             THEN /\ windSpeed' = OrganizeWindSpeed(windSpeed)
                  /\ cloLevel' = OrganizeCloLevel(cloLevel)
                  /\ fansBuilt' = FansCondition(requested, windSpeed', maxWind)
             ELSE /\ UNCHANGED <<windSpeed, cloLevel>>
                  /\ fansBuilt' = FALSE
    /\ ipc' = "done"
    /\ UNCHANGED <<inputVars, radTemp, metRate, exWork, barPress, avgBarPress,
                   checkDataIn, inErr, inWarnings>>
    /\ UNCHANGED <<statVars, condVars, meshVars, unionVars, ptVars, itemVars>>

NextInputs == checkTheInputs \/ main

SpecInputs == InitInputs /\ [][NextInputs]_vars

\* the lists with more than one value, as connected
MultiValued == listLenCheck(<<meanRadTemperature_, windSpeed_, metabolicRate_, clothingLevel_>>)

\* C17: when two or more of the four comfort-parameter lists hold more
\* than one value and their lengths differ, checkTheInputs completes
\* normally, gives the length warning and returns checkData = False;
\* otherwise every list and exWork have the common length.
C17_LengthMismatchReturnsFalse ==
    ipc # "start" =>
        IF ~AllSameLength(MultiValued)
        THEN ipc = "checked" /\ inErr = "none" /\ ~checkDataIn /\ LengthWarning \in inWarnings
        ELSE /\ ipc \in {"checked", "done"}
             /\ \A l \in {radTemp, windSpeed, metRate, cloLevel, exWork} :
                    Len(l) = (IF MultiValued = <<>> THEN 1 ELSE MultiValued[1])

\* a pressure of the atmosphere in Pascals, from high mountains to sea level
RealisticPascals(v) == 30000 <= v /\ v <= 110000

\* the input is a plain list of realistic pressures, one or one per temperature
PascalsSupplied ==
    /\ ~barometricPressure_.hdr
    /\ Len(barometricPressure_.vals) \in {1, airTempLen}
    /\ \A i \in 1..Len(barometricPressure_.vals) : RealisticPascals(barometricPressure_.vals[i])

\* the fraction is the mean of the values of s
IsMeanOf(avg, s) == Len(avg) = 1 /\ avg[1].num * Len(s) = SumSeq(s) * avg[1].den

\* C18: a barometricPressure_ given in Pascals is accepted by
\* checkTheInputs and avgBarPress is the mean of the supplied values; an
\* explicit 101325 gives the avgBarPress and the checkData of the
\* unconnected input.
C18_PascalsAccepted ==
    (ipc = "checked" /\ PascalsSupplied) =>
        /\ PressureWarning \notin inWarnings
        /\ IsMeanOf(avgBarPress, barometricPressure_.vals)
        /\ checkDataIn
        /\ barometricPressure_.vals = <<SeaLevelPressure>> => avgBarPress = avgOf(<<SeaLevelPressure>>)

\* the lists as checkTheInputs returned them, which main hands to
\* calcComfAndStrategyPolygons
ListsOnEntry == ComfortLists(meanRadTemperature_, windSpeed_, metabolicRate_, clothingLevel_)

\* C19: calcComfAndStrategyPolygons leaves the caller's lists radTemp,
\* windSpeed, metRate, cloLevel and exWork as they were on entry: the
\* same values in the same order.
C19_ParameterListsUnchanged ==
    ipc = "done" =>
        /\ radTemp = ListsOnEntry.radTemp
        /\ windSpeed = ListsOnEntry.windSpeed
        /\ metRate = ListsOnEntry.metRate
        /\ cloLevel = ListsOnEntry.cloLevel
        /\ exWork = ListsOnEntry.exWork

\* ------------------------------------------------------------------
\* unionAllCurves as the merge loop uses it

\* the region of curve inner lies within the region of curve outer
Covers(outer, inner) == outer.lo <= inner.lo /\ inner.hi <= outer.hi

\* every curve of before is covered by some curve of after
AllCovered(before, after) == \A i \in 1..Len(before) : \E j \in 1..Len(after) : Covers(after[j], before[i])

\* C20: in every pass of unionAllCurves a pair without overlap or with a
\* failed union is carried over as both original curves and an unpaired
\* last curve unchanged, so that every region that entered the pass is
\* still covered by a curve of its output.
C20_NoCurveDropped == [][(pc = "merge" /\ count' = count + 1) => AllCovered(mergedCurvesFinal, mergedCurvesFinal')]_vars

\* ------------------------------------------------------------------
\* the two merge loops

\* the comfort merge loop was entered and has been left
MergeLoopLeft == pc = "merge" /\ Len(comfortCurves) > 1 /\ mergeComfPolygons_ /\ ~MergeLoopRuns

\* the total-coverage loop was entered and has been left
UnionLoopLeft == pc = "union" /\ listLength > 1 /\ ~UnionLoopRuns

\* a step that ends a pass of either loop
PassMade == pc \in {"merge", "union"} /\ pc' = pc /\ (mergedCurvesFinal' # mergedCurvesFinal \/ allCurves' # allCurves \/ count' # count)

\* C21 as stated: either loop is left with exactly one region or after
\* ceil(N/2)+1 passes, N the number of regions before the first pass.
C21_PassesRoundedUp ==
    /\ MergeLoopLeft => (Len(mergedCurvesFinal) = 1 \/ count = PassLimitRoundedUp(listLength))
    /\ UnionLoopLeft => (Len(allCurves) = 1 \/ count = PassLimitRoundedUp(listLength))

\* C21: either merge loop repeats passes of unionAllCurves until exactly
\* one region remains or floor(N/2)+1 passes have been made, N the number
\* of regions before the first pass; it always terminates, as every pass
\* adds one to a count that never exceeds floor(N/2)+1.
C21_PassesBoundedAndTerminates ==
    /\ [](MergeLoopLeft => (Len(mergedCurvesFinal) = 1 \/ count = (listLength \div 2) + 1))
    /\ [](UnionLoopLeft => (Len(allCurves) = 1 \/ count = (listLength \div 2) + 1))
    /\ [](pc \in {"merge", "union"} => count <= (listLength \div 2) + 1)
    /\ [][PassMade => count' = count + 1]_vars

\* a loop over three regions is left with more than one of them
C21_Witness == MergeLoopLeft /\ listLength = 3 /\ Len(mergedCurvesFinal) > 1 /\ count = 2

\* ------------------------------------------------------------------
\* The merge loop of the comfort polygons on its own, for more polygons
\* than the whole chart run is explored with, and with what each call of
\* unionAllCurves does to the documents.

MaxMerge == 4

\* where the kernel can fail for a pair: "raiseUnion" is an exception out of
\* rs.CurveBooleanUnion (line 821), "raiseDelete" one out of
\* rs.DeleteObjects(all) when all is None (line 828)
PairOutcomes == {"union", "none", "raiseUnion", "raiseDelete"}

\* the branch of unionPair a pair outcome takes
BranchOf(outcome) == IF outcome \in {"raiseUnion", "raiseDelete"} THEN "raise" ELSE outcome

PairOracles(Curves) == [1..(Len(Curves) \div 2) -> PairOutcomes]

\* lines 819-838: the staged objects one pair leaves in the Rhino document;
\* guid1 is deleted on every path (822 or 835), guid2 and the results only
\* on the path that reaches lines 823 and 828
ObjectsLeft(outcome) == IF outcome = "raiseUnion" THEN {"guid2"} ELSE {}

\* lines 830-831 and 836-837: sc.doc and redraw after a pair, on either path
DocAfterPair(outcome) == [scDoc |-> "ghdoc", redrawEnabled |-> TRUE]

\* the pair at position k of Curves unites to one curve
UnitesToOne(Curves, oracle, k) == oracle[k] = "union" /\ Len(CurveBooleanUnion(Curves[2 * k - 1], Curves[2 * k])) = 1

InitMerge ==
    /\ ItemsIdle
    /\ pc = "merge"
    /\ \E calcLengthComf \in 1..MaxMerge :
       \E downTemper \in [1..calcLengthComf -> 0..(ChartMax - ComfWidth)] :
          comfortCurves = [i \in 1..calcLengthComf |-> ComfortPolygon(downTemper[i])]
    /\ mergeComfPolygons_ \in BOOLEAN
    /\ mergedCurvesFinal = comfortCurves
    /\ listLength = Len(comfortCurves)
    /\ count = 0
    /\ comfortCrvSegments = Unset
    /\ strategyListTest = <<>>
    /\ passiveStrategyCurves = <<>>
    /\ allCurves = <<>>
    /\ tempBelowComf = 0
    /\ maxComfortPolyTemp = 0
    /\ hourPts = <<>>
    /\ epwData = FALSE
    /\ patternApplied = FALSE
    /\ totalComfortPercent = Unset
    /\ totalComfortOrNot = Unset
    /\ strategyPercentOfTime = Unset
    /\ strategyOrNot = Unset
    /\ err = "none"
    /\ CondIdle
    /\ CondLocals
    /\ MeshIdle
    /\ InputsIdle
    /\ UnionIdle
    /\ PointsIdle

\* lines 929-931 with lines 810-843: one pass of the merge loop, a whole
\* call of unionAllCurves
MergeCall ==
    /\ pc = "merge"
    /\ MergeLoopRuns
    /\ \E oracle \in PairOracles(mergedCurvesFinal) :
          /\ mergedCurvesFinal' = unionAllCurves(mergedCurvesFinal, [k \in DOMAIN oracle |-> BranchOf(oracle[k])])
          /\ rhinoObjects' = rhinoObjects \cup UNION {ObjectsLeft(oracle[k]) : k \in DOMAIN oracle}
          /\ scDoc' = DocAfterPair("union").scDoc
          /\ redrawEnabled' = DocAfterPair("union").redrawEnabled
          /\ singleUnions' = (singleUnions /\ \A k \in DOMAIN oracle : UnitesToOne(mergedCurvesFinal, oracle, k))
    /\ count' = count + 1
    /\ UNCHANGED <<pc, comfortCurves, comfortCrvSegments, listLength,
                   strategyListTest, passiveStrategyCurves, allCurves,
                   mergeComfPolygons_, tempBelowComf, maxComfortPolyTemp, err>>
    /\ UNCHANGED <<outVars, condVars, meshVars, inVars, ptVars, itemVars>>

\* lines 937-943: the names of the comfort polygons
LabelMerged ==
    /\ pc = "merge"
    /\ ~MergeLoopRuns
    /\ pc' = "labelled"
    /\ strategyListTest' = ComfortNames(mergedCurvesFinal)
    /\ UNCHANGED <<comfortCurves, comfortCrvSegments, mergedCurvesFinal,
                   listLength, count, passiveStrategyCurves, allCurves,
                   mergeComfPolygons_, tempBelowComf, maxComfortPolyTemp, err>>
    /\ UNCHANGED <<outVars, condVars, auxVars>>

NextMerge == MergeCall \/ LabelMerged

SpecMerge == InitMerge /\ [][NextMerge]_vars

\* C22: when merge is requested for N >= 2 comfort regions and every union
\* of two curves gives a single curve, the loop ends with exactly one
\* region, labelled "Comfort"; when merge is not requested the N regions
\* are labelled "Comfort 0" .. "Comfort N-1".
C22_MergeEndsWithOneRegion ==
    (pc = "labelled" /\ Len(comfortCurves) >= 2) =>
        /\ (mergeComfPolygons_ /\ singleUnions) =>
              (Len(mergedCurvesFinal) = 1 /\ strategyListTest = <<"Comfort">>)
        /\ ~mergeComfPolygons_ =>
              (/\ mergedCurvesFinal = comfortCurves
               /\ strategyListTest = [i \in 1..Len(comfortCurves) |-> ComfortIndexName[i]])

\* four regions were merged into one by unions that all succeeded
C22_Witness == pc = "labelled" /\ Len(comfortCurves) = MaxMerge /\ mergeComfPolygons_ /\ singleUnions /\ count >= 2 /\ strategyListTest = <<"Comfort">>

\* C23: unionAllCurves applied to a list of one region returns a list of
\* one element with the identical curve, and applied again it returns the
\* same.
C23_SingleRegionUnchanged ==
    Len(mergedCurvesFinal) = 1 =>
        \A oracle \in Oracles(mergedCurvesFinal) :
            /\ unionAllCurves(mergedCurvesFinal, oracle) = mergedCurvesFinal
            /\ unionAllCurves(unionAllCurves(mergedCurvesFinal, oracle), oracle) = mergedCurvesFinal

\* a single region that came out of a merge of several
C23_Witness == pc = "labelled" /\ Len(comfortCurves) >= 2 /\ Len(mergedCurvesFinal) = 1 /\ unionAllCurves(mergedCurvesFinal, <<>>) = mergedCurvesFinal

\* ------------------------------------------------------------------
\* the substitution of the letters, part by part

\* the 0-based index in letters of a character that listNum holds, or -1
LetterNum(char, nums) == IF \E k \in DOMAIN nums : letters[nums[k] + 1] = char THEN nums[CHOOSE k \in DOMAIN nums : letters[nums[k] + 1] = char] ELSE -1

\* every referenced letter of part replaced by the text of its own series,
\* all at once
RECURSIVE SubstituteAtOnce(_, _, _)
SubstituteAtOnce(part, nums, texts) == IF part = <<>> THEN <<>> ELSE (IF LetterNum(Head(part), nums) >= 0 THEN texts[LetterNum(Head(part), nums)] ELSE <<Head(part)>>) \o SubstituteAtOnce(Tail(part), nums, texts)

\* the statement was compiled
Compiled == cpc \in {"loop", "returned"} /\ finalStatement # <<>>

\* C24: in every part of the statement other than and/or every occurrence
\* of every referenced letter is replaced by the reference to its own
\* series at the current hour, and by the display name of that series in
\* the restatement; and/or are kept as written; what is inserted for one
\* letter does not depend on the other letters or on the display names.
C24_LettersSubstitutedIndependently ==
    Compiled =>
        LET parts == Split(conditionalStatement)
            refs == [n \in 0..(Len(annualHourlyData) - 1) |-> toBeReplacedWith(n)]
            names == [n \in 0..(Len(annualHourlyData) - 1) |-> annualHourlyData[n + 1].name]
        IN  /\ Len(finalStatement) = Len(parts)
            /\ Len(titleStatement) = Len(parts)
            /\ \A i \in DOMAIN parts :
                  IF IsConnective(parts[i])
                  THEN finalStatement[i] = parts[i] /\ titleStatement[i] = parts[i]
                  ELSE /\ finalStatement[i] = SubstituteAtOnce(parts[i], listNum, refs)
                       /\ titleStatement[i] = SubstituteAtOnce(parts[i], listNum, names)

\* ------------------------------------------------------------------
\* the binning rule of colorMesh

\* sample h lies in the range of the rule: -20 <= t < 50 and 0 <= rh < 100
InBinRange(h) ==
    /\ MeshTempLow * TempUnit <= airTempIn[h] /\ airTempIn[h] < MeshTempHigh * TempUnit
    /\ 0 <= relHumidIn[h] /\ relHumidIn[h] < HumidStep * HumidRows

\* 1-based position in the row-major list of the cell with temperature bin
\* floor(t + 20) and humidity bin floor(rh / 5)
CellByRule(h) == (relHumidIn[h] \div HumidStep) * TempFaces + ((airTempIn[h] - MeshTempLow * TempUnit) \div TempUnit) + 1

\* C25: colorMesh counts a sample with -20 <= t < 50 and 0 <= rh < 100 in
\* exactly one cell, the one with temperature bin floor(t + 20) and
\* humidity bin floor(rh / 5), of a list ordered by humidity bin, then
\* temperature bin.
C25_BinnedByFloorRule ==
    mpc = "done" =>
        /\ \A i \in DOMAIN finalMeshFrequency :
              finalMeshFrequency[i] >= Cardinality({h \in DOMAIN airTempIn : InBinRange(h) /\ CellByRule(h) = i})
        /\ SumRange(finalMeshFrequency, 1, Len(finalMeshFrequency)) <= Len(airTempIn)

\* ------------------------------------------------------------------
\* The boundary points of the comfort polygons: the loop of lines 853-872
\* over the parameter sets and the relative humidity lines 0, 50 and 100.

ChartTempLow == -20
ChartTempHigh == 50
HumidityLines == 3

\* the bounds calcComfRange can hand back: at the left edge of the chart,
\* inside it, at the right edge
TemperValues == {ChartTempLow, 0, ChartTempHigh}

\* lines 859-863: the point of the upper bound
UpPoint(temper, line, set) ==
    IF temper < ChartTempHigh
    THEN IF temper > ChartTempLow THEN Point(line, set, "cut", temper)
         ELSE Point(line, set, "start", 0)
    ELSE Point(line, set, "end", 0)

\* lines 866-870: downIntersect after the statement; the last branch
\* assigns upIntersect and leaves downIntersect as it was
DownPoint(temper, line, set, before) ==
    IF temper < ChartTempHigh
    THEN IF temper > ChartTempLow THEN Point(line, set, "cut", temper)
         ELSE Point(line, set, "start", 0)
    ELSE before

\* the turn of the loop that follows the turn index, count
NextTurn == IF ptpc = "start" THEN <<0, 0>> ELSE IF ptCount = HumidityLines - 1 THEN <<ptIndex + 1, 0>> ELSE <<ptIndex, ptCount + 1>>

InitPoints ==
    /\ ItemsIdle
    /\ pc = "idle"
    /\ epwData = FALSE
    /\ StatStart
    /\ CondIdle
    /\ CondLocals
    /\ MeshIdle
    /\ InputsIdle
    /\ UnionIdle
    /\ ptpc = "start"
    /\ ptSets \in 1..MaxComf
    /\ PointsUnset

\* lines 856-871: one turn of the inner loop; appending an unbound
\* downIntersect raises UnboundLocalError after the upper point was appended
BoundaryTurn ==
    /\ ptpc \in {"start", "loop"}
    /\ NextTurn[1] < ptSets
    /\ \E up \in TemperValues, down \in TemperValues :
          LET set == NextTurn[1]
              line == NextTurn[2]
              upPts == IF line = 0 THEN <<>> ELSE upTemperPts
              downPts == IF line = 0 THEN <<>> ELSE downTemperPts
              down2 == DownPoint(down, line, set, downIntersect)
          IN  /\ ptIndex' = set
              /\ ptCount' = line
              /\ upTemperAt' = up
              /\ downTemperAt' = down
              /\ upTemperPts' = Append(upPts, UpPoint(up, line, set))
              /\ upIntersect' = IF down < ChartTempHigh THEN UpPoint(up, line, set) ELSE Point(line, set, "end", 0)
              /\ downIntersect' = down2
              /\ IF down2 = Unbound
                 THEN ptpc' = "failed" /\ downTemperPts' = downPts
                 ELSE ptpc' = "loop" /\ downTemperPts' = Append(downPts, down2)
    /\ UNCHANGED ptSets
    /\ UNCHANGED <<statVars, condVars, meshVars, inVars, unionVars, itemVars>>

\* line 853: range(calcLengthComf) is used up
BoundaryDone ==
    /\ ptpc \in {"start", "loop"}
    /\ NextTurn[1] >= ptSets
    /\ ptpc' = "done"
    /\ UNCHANGED <<ptSets, ptIndex, ptCount, upTemperAt, downTemperAt, upIntersect,
                   downIntersect, upTemperPts, downTemperPts>>
    /\ UNCHANGED <<statVars, condVars, meshVars, inVars, unionVars, itemVars>>

NextPoints == BoundaryTurn \/ BoundaryDone

SpecPoints == InitPoints /\ [][NextPoints]_vars

\* the point the rule gives for a bound on a line: the cut when the bound
\* lies strictly between -20 and 50, the start of the line at or below -20,
\* its end at or above 50
PointByRule(temper, line, set) ==
    IF temper <= ChartTempLow THEN Point(line, set, "start", 0)
    ELSE IF temper >= ChartTempHigh THEN Point(line, set, "end", 0)
    ELSE Point(line, set, "cut", temper)

\* C26: for each parameter set, each relative humidity line and each of the
\* two bounds the boundary point is the cut of the line, its start or its
\* end by the rule; the point of the lower bound is always defined and is
\* never the point computed for another line or parameter set.
C26_BoundaryPointsByRule ==
    /\ ptpc # "failed"
    /\ ptpc \in {"loop", "done"} =>
          /\ Len(upTemperPts) = ptCount + 1
          /\ Len(downTemperPts) = ptCount + 1
          /\ upTemperPts[ptCount + 1] = PointByRule(upTemperAt, ptCount, ptIndex)
          /\ downTemperPts[ptCount + 1] = PointByRule(downTemperAt, ptCount, ptIndex)

\* C27: the polygon "Occupant Use of Fans" is constructed if and only if it
\* is requested and maxWindSpeed is strictly greater than the wind speed of
\* the first parameter set; the wind speeds of the other sets have no
\* influence.
C27_FansAgainstFirstSet ==
    (ipc = "done" /\ comfortBuilt) =>
        (fansBuilt <=> (fansRequested /\ maxWindSpeed > ListsOnEntry.windSpeed[1]))

\* C28: after unionAllCurves returns, whatever happened to each pair,
\* sc.doc is ghdoc again, redraw is enabled again, and neither a staged
\* curve nor a union result is left in the Rhino document.
C28_DocumentRestored ==
    (pc \in {"merge", "labelled"} /\ count > 0) =>
        /\ scDoc = "ghdoc"
        /\ redrawEnabled
        /\ rhinoObjects = {}

\* ------------------------------------------------------------------
\* the companion hour of the night-vent rule

\* the companion-hour loop ran for some polygon over at least CompanionLag
\* samples
CompanionRuleRan ==
    /\ pc \in {"done", "failed"}
    /\ epwData
    /\ ~patternApplied
    /\ Len(hourPts) >= CompanionLag
    /\ \E i \in DOMAIN strategyListTest : strategyListTest[i] = "Thermal Mass + Night Vent"

\* 1-based position of the companion of sample h by the wrap-around rule
WrappedCompanion(h) == IF h - 1 >= CompanionLag THEN h - CompanionLag ELSE Len(hourPts) - CompanionLag + h

\* C29: whenever the companion-hour rule is applied to N samples, N at
\* least the lag (12 in the code), the companion of hour h is hour h - lag
\* for h >= lag and hour N - lag + h, from the end of the list, for h < lag;
\* the lookup never fails and never reads outside the list.
C29_CompanionWrapsAround ==
    CompanionRuleRan =>
        /\ err # "IndexError"
        /\ \A h \in 1..Len(hourPts) : WrappedCompanion(h) \in 1..Len(hourPts)
        /\ pc = "done" =>
              \A i \in 1..NumRegions :
                  strategyListTest[i] = "Thermal Mass + Night Vent" =>
                      \A h \in 1..Len(hourPts) :
                          strategyOrNot[i].data[h] = 1 <=>
                              (/\ Contains(RegionAt(i), hourPts[h]) = "Inside"
                               /\ hourPts[WrappedCompanion(h)] < maxComfortPolyTemp - tempBelowComf)

\* the first sample lies in the night-vent polygon and passes by the
\* temperature of a sample at the end of the list
C29_Witness ==
    /\ CompanionRuleRan
    /\ pc = "done"
    /\ \E i \in 1..NumRegions :
          /\ strategyListTest[i] = "Thermal Mass + Night Vent"
          /\ Contains(RegionAt(i), hourPts[1]) = "Inside"
          /\ strategyOrNot[i].data[1] = 1


\* ------------------------------------------------------------------
\* checkTheInputs of the psychrometric chart: the loops that read the
\* items of _dryBulbTemperature, _relativeHumidity, meanRadTemperature_,
\* windSpeed_ and clothingLevel_. The lists carry no weather-file header.
\* Wind speeds are in units of 0.05 m/s.

MaxItems == 3

\* an item float() converts, and one it raises on
Number(n) == [isNum |-> TRUE, val |-> n]
NotANumber == [isNum |-> FALSE, val |-> 0]

ItemValues == {Number(-1), Number(1), Number(200), NotANumber}

ParamNames == {"_dryBulbTemperature", "_relativeHumidity", "meanRadTemperature_", "windSpeed_", "clothingLevel_"}

HumidityLow == 0
HumidityHigh == 100
WindSpeedLow == 0
CloLevelLow == 0
CloLevelHigh == 5

\* the test on float(item) in the loop of each input: lines 113, 140,
\* 228, 249 and 318
InRange(name, x) ==
    IF name = "_relativeHumidity" THEN HumidityLow <= x /\ x <= HumidityHigh
    ELSE IF name = "windSpeed_" THEN x >= WindSpeedLow
    ELSE IF name = "clothingLevel_" THEN CloLevelLow <= x /\ x <= CloLevelHigh
    ELSE TRUE

\* the inputs that get a default when nothing is connected
HasDefault(name) == name \in {"meanRadTemperature_", "windSpeed_", "clothingLevel_"}

DefaultOf(name) ==
    IF name = "meanRadTemperature_" THEN RadTempDefault
    ELSE IF name = "windSpeed_" THEN WindSpeedDefault
    ELSE CloLevelDefault

\* lines 188-195 and 337-346 with one value connected to each of the
\* other inputs or none: the only list that can hold more than one
\* value is the one the loop made
OtherChecksPass(name, list) ==
    IF HasDefault(name)
    THEN IF name = "meanRadTemperature_" THEN comfortListsMatch(list, <<WindSpeedDefault>>, <<MetRateDefault>>, <<CloLevelDefault>>)
         ELSE IF name = "windSpeed_" THEN comfortListsMatch(<<RadTempDefault>>, list, <<MetRateDefault>>, <<CloLevelDefault>>)
         ELSE comfortListsMatch(<<RadTempDefault>>, <<WindSpeedDefault>>, <<MetRateDefault>>, list)
    ELSE AllSameLength(listLenCheck(<<list, <<SeaLevelPressure>>>>))

InitItems ==
    /\ ItemsUnset
    /\ pc = "idle"
    /\ epwData = FALSE
    /\ StatStart
    /\ CondIdle
    /\ CondLocals
    /\ MeshIdle
    /\ InputsIdle
    /\ UnionIdle
    /\ PointsIdle
    /\ itpc = "loop"
    /\ paramName \in ParamNames
    /\ paramInput \in SeqsUpTo(ItemValues, MaxItems)

\* one turn of "for item in ...": lines 110-114, 137-143, 225-229,
\* 246-252 and 315-321
ItemTurn ==
    /\ itpc = "loop"
    /\ itemIndex < Len(paramInput)
    /\ LET item == paramInput[itemIndex + 1]
       IN  IF item.isNum
           THEN IF InRange(paramName, item.val)
                THEN /\ paramList' = Append(paramList, item.val)
                     /\ checkDataN' = TRUE
                     /\ UNCHANGED inRangeFlag
                ELSE /\ inRangeFlag' = FALSE
                     /\ UNCHANGED <<paramList, checkDataN>>
           ELSE /\ checkDataN' = FALSE
                /\ UNCHANGED <<paramList, inRangeFlag>>
    /\ itemIndex' = itemIndex + 1
    /\ UNCHANGED <<itpc, paramName, paramInput, checkDataOut>>
    /\ UNCHANGED <<statVars, condVars, meshVars, inVars, unionVars, ptVars>>

\* after the loop: the range flag (lines 144, 253, 322), the default of
\* an unconnected input (lines 237-239, 258-260, 327-329), and the
\* conjunction of lines 432-435
ItemsDone ==
    /\ itpc = "loop"
    /\ itemIndex = Len(paramInput)
    /\ LET connected == Len(paramInput) # 0
           list == IF ~connected /\ HasDefault(paramName) THEN <<DefaultOf(paramName)>> ELSE paramList
           ok == IF connected THEN checkDataN /\ inRangeFlag ELSE HasDefault(paramName)
       IN  /\ paramList' = list
           /\ checkDataN' = ok
           /\ checkDataOut' = (ok /\ OtherChecksPass(paramName, list))
    /\ itpc' = "returned"
    /\ UNCHANGED <<paramName, paramInput, itemIndex, inRangeFlag>>
    /\ UNCHANGED <<statVars, condVars, meshVars, inVars, unionVars, ptVars>>

NextItems == ItemTurn \/ ItemsDone

SpecItems == InitItems /\ [][NextItems]_vars

\* an item that is a valid number for the input it is connected to
ValidItem(name, item) == item.isNum /\ InRange(name, item.val)

\* C30: checkTheInputs returns checkData = False for a list with an item
\* that is not a valid number, wherever in the list the item stands; no
\* invalid item is dropped while the run goes on with the other values.
C30_InvalidItemRejected ==
    itpc = "returned" =>
        ((\E i \in DOMAIN paramInput : ~ValidItem(paramName, paramInput[i]))
            => checkDataOut = FALSE)

====
